---- MODULE Spec2Model ----
(***************************************************************************)
(* The geometric warp and re-projection engine of the metallic text        *)
(* renderer: alpha bounds detection, the bottom-weighted warp, the two     *)
(* parabolic arc warps and the gradient reprojection that follows a warp;  *)
(* and the content bounds detection of the image warp tool.                *)
(*                                                                         *)
(* Numbers.  The JavaScript code computes in IEEE doubles and keeps its    *)
(* forward maps in Float32Arrays.  The model computes the same expressions *)
(* in exact rational arithmetic: every forward-map value of one warp call  *)
(* is an integer numerator over one common denominator (the field D of the *)
(* geometry record), so that comparisons, floors and the interpolation are *)
(* exact.  Where the exact value of a sample lies on a rounding tie, the   *)
(* floating-point result can differ from the model's by one unit of a      *)
(* channel.  Powers are integers, start ratios tenths or hundredths.       *)
(* Pixel channels are the 8-bit integers 0..255.                           *)
(***************************************************************************)
EXTENDS Integers, Sequences, FiniteSets, TLC

\* ---------------------------------------------------------------- bounds
\* Largest width and height of a glyph-proxy layer.
MaxW == 3
MaxH == 3
\* Largest bend / arc, in half pixels (bend = k/2 px, k in 0..MaxBend2).
MaxBend2 == 3
\* Largest number of pixels (width * height) of an arbitrary-content buffer.
MaxPixels == 4

\* ------------------------------------------------------------ arithmetic
Max(a, b) == IF a >= b THEN a ELSE b
Min(a, b) == IF a <= b THEN a ELSE b
Abs(a) == IF a < 0 THEN -a ELSE a
Sign(a) == IF a > 0 THEN 1 ELSE IF a < 0 THEN -1 ELSE 0

RECURSIVE GCD(_, _)
GCD(a, b) == IF b = 0 THEN a ELSE GCD(b, a % b)

\* Math.ceil(n/d) for d > 0 (\div is the floor division).
Ceil(n, d) == -((-n) \div d)

RECURSIVE IPow(_, _)
IPow(b, e) == IF e = 0 THEN 1 ELSE b * IPow(b, e - 1)

\* <<q, r>> with k*d = q*s + r and 0 <= r < s, for k >= 0, 0 <= d, s > 0,
\* computed by doubling so that no intermediate value exceeds 3*s + d.
RECURSIVE MulDivMod(_, _, _)
MulDivMod(k, d, s) ==
  IF k = 0 THEN <<0, 0>>
  ELSE LET half == MulDivMod(k \div 2, d, s)
           r2 == 2 * half[2] + (IF k % 2 = 1 THEN d % s ELSE 0)
           q2 == 2 * half[1] + (IF k % 2 = 1 THEN d \div s ELSE 0)
       IN <<q2 + (r2 \div s), r2 % s>>

\* Mutant: the sample is always the lower of the two source rows.
LerpLowerRow(c0, c1, d, s) == c1

\* (c0 * (1 - frac) + c1 * frac + 0.5) | 0 with frac = d/s, 0 <= d <= s, s > 0.
Lerp(c0, c1, d, s) ==
  LET k == c1 - c0
      m == MulDivMod(Abs(k), d, s)
  IN IF k >= 0
       THEN c0 + m[1] + (IF 2 * m[2] >= s THEN 1 ELSE 0)
       ELSE c0 - m[1] - (IF 2 * m[2] > s THEN 1 ELSE 0)

\* --------------------------------------------------------------- canvases
\* A canvas is [w, h, px] with px[<<x, y>>] = <<r, g, b, a>>.
Clear == <<0, 0, 0, 0>>
Faint == <<255, 255, 255, 2>>
White == <<255, 255, 255, 255>>
Purple == <<182, 110, 184, 255>>

Coords(w, h) == (0 .. w - 1) \X (0 .. h - 1)

createCanvas(w, h) == [w |-> w, h |-> h, px |-> [p \in Coords(w, h) |-> Clear]]

NoCanvas == [w |-> 0, h |-> 0, px |-> <<>>]

\* A glyph proxy: an opaque rectangle [x0..x1] x [y0..y1] on a transparent
\* layer, its rows alternately white and purple.
RectGlyph(w, h, x0, x1, y0, y1) ==
  [w |-> w, h |-> h,
   px |-> [p \in Coords(w, h) |->
             IF x0 <= p[1] /\ p[1] <= x1 /\ y0 <= p[2] /\ p[2] <= y1
               THEN (IF p[2] % 2 = 0 THEN White ELSE Purple)
               ELSE Clear]]

GlyphLayers ==
  UNION { { RectGlyph(w, h, x0, x1, y0, y1) :
              x0 \in 0 .. w - 1, x1 \in 0 .. w - 1, y0 \in 0 .. h - 1, y1 \in 0 .. h - 1 }
          : w \in 1 .. MaxW, h \in 1 .. MaxH }

\* Every buffer of at most MaxPixels pixels, each pixel transparent, of
\* alpha 2 or opaque.
AnyBuffers ==
  UNION { UNION { { [w |-> w, h |-> h, px |-> f] : f \in [Coords(w, h) -> {Clear, Faint, White}] }
                  : h \in 1 .. MaxPixels \div w }
          : w \in 1 .. MaxPixels }

\* ------------------------------------------------------- getAlphaBounds
\* Mutant: every pixel of non-zero alpha is content.
IsContentAlphaNonZero(a) == a > 0

\* if (a > 2): the alpha of a content pixel.
IsContentAlpha(a) == a > 2

\* The inner loop of getAlphaBounds: the pixels x, x+1, ... of row y.
\* (acc.maxX < width always holds: the second test only makes the evaluator
\* reduce the running bounds at every pixel instead of at the end.)
RECURSIVE AlphaScanRow(_, _, _, _)
AlphaScanRow(canvas, y, x, acc) ==
  IF x >= canvas.w \/ acc.maxX >= canvas.w THEN acc
  ELSE AlphaScanRow(canvas, y, x + 1,
         IF IsContentAlpha(canvas.px[<<x, y>>][4])
           THEN [minX |-> IF x < acc.minX THEN x ELSE acc.minX,
                 minY |-> IF y < acc.minY THEN y ELSE acc.minY,
                 maxX |-> IF x > acc.maxX THEN x ELSE acc.maxX,
                 maxY |-> IF y > acc.maxY THEN y ELSE acc.maxY]
           ELSE acc)

\* The outer loop: the rows y, y+1, ...  (acc.maxY < height always holds.)
RECURSIVE AlphaScan(_, _, _)
AlphaScan(canvas, y, acc) ==
  IF y >= canvas.h \/ acc.maxY >= canvas.h THEN acc
  ELSE AlphaScan(canvas, y + 1, AlphaScanRow(canvas, y, 0, acc))

getAlphaBounds(canvas) ==
  LET r == AlphaScan(canvas, 0,
             [minX |-> canvas.w, minY |-> canvas.h, maxX |-> -1, maxY |-> -1])
  IN IF r.maxX < 0
       THEN [minX |-> 0, minY |-> 0, maxX |-> canvas.w - 1, maxY |-> canvas.h - 1]
       ELSE r

\* ------------------------------------------- warpBottomWeightedCanvas
\* A rational n/d in lowest terms, as <<n, d>> with d > 0.
\* Mutant: the bounds are taken from the canvas being warped.
WarpBoundsOfSource(srcCanvas, boundsCanvas) == getAlphaBounds(srcCanvas)

\* const bounds = getAlphaBounds(boundsCanvas || srcCanvas)
WarpBounds(srcCanvas, boundsCanvas) ==
  getAlphaBounds(IF boundsCanvas = NoCanvas THEN srcCanvas ELSE boundsCanvas)

Rat(n, d) == LET g == GCD(Abs(n), d) IN <<n \div g, d \div g>>

\* Mutant: direction up shifts like direction down.
DirSignDown(direction) == 1

\* const dir = direction === 'up' ? -1 : 1
DirSign(direction) == IF direction = "up" THEN -1 ELSE 1

\* Mutant: the padding on the side of the bend is the bend rounded down.
BendPaddingFloor(bN, bD) == bN \div bD

\* Math.ceil(bend) + 2, the padding on the side the rows move to (bend = bN/bD).
BendPadding(bN, bD) == Ceil(bN, bD) + 2

\* The per-call constants of warpBottomWeightedCanvas.  startRatio10 is the
\* start ratio in tenths, bendPx a rational <<n, d>>, power a positive integer.
\* startWarpY = swy10/10, warpRange = wr10/10; n = nN/nD after dividing both
\* by the common factor g.  D is the common denominator of the forward map.
BottomGeom(w, h, bounds, bendPx, startRatio10, power, direction) ==
  LET bN == Max(0, bendPx[1])
      bD == bendPx[2]
      dir == DirSign(direction)
      extraTop == IF dir < 0 THEN BendPadding(bN, bD) ELSE 2
      extraBottom == IF dir > 0 THEN BendPadding(bN, bD) ELSE 2
      glyphTop == bounds.minY
      glyphBottom == Max(bounds.minY + 1, bounds.maxY)
      swy10 == 10 * glyphTop + (glyphBottom - glyphTop) * startRatio10
      wr10 == Max(10, 10 * glyphBottom - swy10)
      g == GCD(10, GCD(swy10, wr10))
      m == Max(1, w - 1)
  IN [w |-> w, h |-> h, dir |-> dir, bN |-> bN, bD |-> bD,
      extraTop |-> extraTop, extraBottom |-> extraBottom,
      outH |-> h + extraTop + extraBottom,
      swy10 |-> swy10, wr10 |-> wr10, g |-> g, m |-> m, power |-> power,
      nD |-> wr10 \div g,
      D |-> 100 * bD * m * m * IPow(wr10 \div g, power)]

\* Mutant: the full bend in every column (curve = 1).
CurveNumFlat(G, ox) == G.m * G.m

\* curve = 1 - t*t with t = (ox / max(1, w-1)) * 2 - 1, as numerator over m*m.
CurveNum(G, ox) == G.m * G.m - (2 * ox - G.m) * (2 * ox - G.m)

\* Mutant: the shift is not gated on sy > startWarpY.
ShiftNumUngated(G, ox, sy) ==
  100 * G.dir * G.bN * CurveNum(G, ox)
      * IPow(Min(G.nD, (10 \div G.g) * sy - G.swy10 \div G.g), G.power)

\* The shift of source row sy in column ox, as numerator over G.D.
ShiftNum(G, ox, sy) ==
  IF 10 * sy > G.swy10
    THEN LET nN == Min(G.nD, (10 \div G.g) * sy - G.swy10 \div G.g)
         IN 100 * G.dir * G.bN * CurveNum(G, ox) * IPow(nN, G.power)
    ELSE 0

\* fwd[sy] = sy + extraTop + shift, as numerator over G.D.
FwdRaw(G, ox, sy) == (sy + G.extraTop) * G.D + ShiftNum(G, ox, sy)

RECURSIVE MonoFix(_, _, _)
MonoFix(raw, eps, done) ==
  IF Len(done) = Len(raw) THEN done
  ELSE LET i == Len(done) + 1
       IN MonoFix(raw, eps,
            Append(done, IF i > 1 /\ raw[i] <= done[i - 1] THEN done[i - 1] + eps
                         ELSE raw[i]))

\* Mutant: the monotonicity pass is skipped.
EnforceMonotonicitySkipped(raw, eps) == raw

\* The pass "if (fwd[sy] <= fwd[sy-1]) fwd[sy] = fwd[sy-1] + 0.01" (eps = 0.01).
EnforceMonotonicity(raw, eps) == MonoFix(raw, eps, <<>>)

\* The forward map of column ox before and after the monotonicity pass,
\* as sequences indexed sy + 1.
RawMap(G, ox) == [i \in 1 .. G.h |-> FwdRaw(G, ox, i - 1)]
ForwardMap(G, ox) == EnforceMonotonicity(RawMap(G, ox), G.D \div 100)

\* Mutant: the loop without its "sy < h - 2" bound (a read past the end of
\* fwd is undefined, which fails the comparison).
RECURSIVE AdvancePastEnd(_, _, _, _)
AdvancePastEnd(fwd, h, oyD, sy) ==
  IF sy + 2 \in DOMAIN fwd /\ fwd[sy + 2] <= oyD THEN AdvancePastEnd(fwd, h, oyD, sy + 1)
  ELSE sy

\* while (sy < h - 2 && fwd[sy + 1] <= oy) sy++
RECURSIVE Advance(_, _, _, _)
Advance(fwd, h, oyD, sy) ==
  IF sy < h - 2 /\ fwd[sy + 2] <= oyD THEN Advance(fwd, h, oyD, sy + 1) ELSE sy

\* The scan pointer after the while loop at each output row, indexed oy + 1;
\* the pointer is carried from one output row to the next.
RECURSIVE ScanFrom(_, _, _, _, _)
ScanFrom(fwd, h, D, outH, acc) ==
  IF Len(acc) = outH THEN acc
  ELSE LET oy == Len(acc)
           prev == IF oy = 0 THEN 0 ELSE acc[oy]
       IN ScanFrom(fwd, h, D, outH, Append(acc, Advance(fwd, h, oy * D, prev)))

ScanPointers(fwd, h, D, outH) == ScanFrom(fwd, h, D, outH, <<>>)

\* Mutant: no output row is treated as out of range.
OutOfRangeNever(fwd, h, D, oy) == FALSE

\* Is output row oy outside [fwd[0], fwd[h-1]]?
OutOfRange(fwd, h, D, oy) == oy * D < fwd[1] \/ oy * D > fwd[h]

\* Mutant: the second source row is not clamped to the last row.
LowerRowUnclamped(h, sy) == sy + 1

\* const sy1 = Math.min(h - 1, sy + 1)
LowerRow(h, sy) == Min(h - 1, sy + 1)

\* srcData[(sy * w + ox) * 4 + c]: a read past the pixel data yields
\* undefined, which the "| 0" of the sample turns into 0.
SrcRead(px, ox, sy) == IF <<ox, sy>> \in DOMAIN px THEN px[<<ox, sy>>] ELSE <<0, 0, 0, 0>>

\* The bilinear sample of output row oy from source rows sy and sy1 (a span
\* read past the end of fwd is NaN, which fails the test and leaves frac = 0).
Interpolate(px, ox, oy, fwd, h, D, sy) ==
  LET sy1 == LowerRow(h, sy)
      span == IF sy1 + 1 \in DOMAIN fwd THEN fwd[sy1 + 1] - fwd[sy + 1] ELSE 0
      wide == span > D \div 10000
      d == IF wide THEN Max(0, Min(span, oy * D - fwd[sy + 1])) ELSE 0
      s == IF wide THEN span ELSE 1
  IN [c \in 1 .. 4 |-> Lerp(SrcRead(px, ox, sy)[c], SrcRead(px, ox, sy1)[c], d, s)]

\* The rows of one output column, indexed oy + 1: out-of-range rows get the
\* fill pixel, the others the interpolated sample.
RECURSIVE ResampleRows(_, _, _, _, _, _, _, _, _)
ResampleRows(px, ox, fwd, h, D, outH, fill, ptr, acc) ==
  IF Len(acc) = outH THEN acc
  ELSE LET oy == Len(acc)
       IN ResampleRows(px, ox, fwd, h, D, outH, fill, ptr,
            Append(acc, IF OutOfRange(fwd, h, D, oy) THEN fill
                        ELSE Interpolate(px, ox, oy, fwd, h, D, ptr[oy + 1])))

\* One output column of the resampling loop.
ResampleColumn(px, ox, fwd, h, D, outH, fill) ==
  ResampleRows(px, ox, fwd, h, D, outH, fill, ScanPointers(fwd, h, D, outH), <<>>)

\* The outer loop over the columns: fwds[ox + 1] is the forward map of
\* column ox; the result is indexed [ox + 1][oy + 1].
RECURSIVE ResampleColumns(_, _, _, _, _, _, _)
ResampleColumns(px, fwds, h, D, outH, fill, acc) ==
  IF Len(acc) = Len(fwds) THEN acc
  ELSE ResampleColumns(px, fwds, h, D, outH, fill,
         Append(acc, ResampleColumn(px, Len(acc), fwds[Len(acc) + 1], h, D, outH, fill)))

\* outCtx.putImageData(outPixels, 0, 0); return out
CanvasOf(w, outH, cols) ==
  [w |-> w, h |-> outH, px |-> [p \in Coords(w, outH) |-> cols[p[1] + 1][p[2] + 1]]]

warpBottomWeightedCanvas(srcCanvas, bendPx, startRatio10, power, boundsCanvas, direction) ==
  LET G == BottomGeom(srcCanvas.w, srcCanvas.h, WarpBounds(srcCanvas, boundsCanvas),
                      bendPx, startRatio10, power, direction)
      cols == ResampleColumns(srcCanvas.px, [i \in 1 .. G.w |-> ForwardMap(G, i - 1)],
                              G.h, G.D, G.outH, Clear, <<>>)
  IN CanvasOf(G.w, G.outH, cols)

\* The geometry warpBottomWeightedCanvas computes for a call: the size of the
\* output canvas and the forward map of every column (over the denominator D).
warpBottomWeightedMaps(srcCanvas, bendPx, startRatio10, power, boundsCanvas, direction) ==
  LET G == BottomGeom(srcCanvas.w, srcCanvas.h, WarpBounds(srcCanvas, boundsCanvas),
                      bendPx, startRatio10, power, direction)
  IN [w |-> G.w, outH |-> G.outH, D |-> G.D,
      fwds |-> [x \in 1 .. G.w |-> ForwardMap(G, x - 1)]]

\* ---------------------------------------- warpParabolicVerticalCanvas
LCM(a, b) == (a \div GCD(a, b)) * b

\* Mutant: the parabola spans the buffer, not the glyph.
ArcSpanOfBuffer(w, bounds) == [left |-> 0, right |-> w - 1, hw2 |-> Max(2, w - 1)]

\* left and right of the glyph, and the parabola over them:
\* nx = (x - centerX) / halfWidth = (2x - left - right) / hw2, hw2 = max(2, right - left).
ArcSpan(w, bounds) ==
  LET left == Max(0, bounds.minX)
      right == Min(w - 1, Max(bounds.minX + 1, bounds.maxX))
  IN [left |-> left, right |-> right, hw2 |-> Max(2, right - left)]

\* Mutant: a tent in place of the parabola (curve = 1 - |nx|).
ArcCurveNumTent(span, x) ==
  Max(0, span.hw2 * (span.hw2 - Abs(2 * x - span.left - span.right)))

\* curve = |nx| <= 1 ? max(0, 1 - nx*nx) : 0, as numerator over hw2*hw2.
ArcCurveNum(span, x) ==
  LET nxN == 2 * x - span.left - span.right
  IN IF Abs(nxN) <= span.hw2 THEN Max(0, span.hw2 * span.hw2 - nxN * nxN) ELSE 0

\* The smallest and the largest of 0 and the values f[x], x in 0..w-1.
RECURSIVE MinShift(_, _)
MinShift(f, w) == IF w = 0 THEN 0 ELSE Min(MinShift(f, w - 1), f[w - 1])
RECURSIVE MaxShift(_, _)
MaxShift(f, w) == IF w = 0 THEN 0 ELSE Max(MaxShift(f, w - 1), f[w - 1])

\* The per-call constants of warpParabolicVerticalCanvas; arcPx = <<n, d>>.
\* shifts[x] = -arcPx * curve is the numerator shiftN[x] over D.
VerticalGeom(w, h, bounds, arcPx) ==
  LET span == ArcSpan(w, bounds)
      D == arcPx[2] * span.hw2 * span.hw2
      shiftN == [x \in 0 .. w - 1 |-> -arcPx[1] * ArcCurveNum(span, x)]
      extraTop == Ceil(Max(0, -MinShift(shiftN, w)), D) + 2
      extraBottom == Ceil(Max(0, MaxShift(shiftN, w)), D) + 2
  IN [w |-> w, h |-> h, span |-> span, D |-> D, shiftN |-> shiftN,
      extraTop |-> extraTop, extraBottom |-> extraBottom,
      outH |-> h + extraTop + extraBottom]

\* The output pixel (x, oy): sy = oy - (shifts[x] + extraTop), sampled
\* between rows floor(sy) and floor(sy) + 1.
VerticalPixel(px, G, x, oy) ==
  LET syN == (oy - G.extraTop) * G.D - G.shiftN[x]
      sy0 == syN \div G.D
      sy1 == Min(G.h - 1, sy0 + 1)
  IN IF syN < 0 \/ syN > (G.h - 1) * G.D THEN Clear
     ELSE [c \in 1 .. 4 |-> Lerp(px[<<x, sy0>>][c], px[<<x, sy1>>][c], syN % G.D, G.D)]

warpParabolicVerticalCanvas(srcCanvas, arcPx, boundsCanvas) ==
  LET G == VerticalGeom(srcCanvas.w, srcCanvas.h, WarpBounds(srcCanvas, boundsCanvas), arcPx)
  IN [w |-> G.w, h |-> G.outH,
      px |-> [p \in Coords(G.w, G.outH) |-> VerticalPixel(srcCanvas.px, G, p[1], p[2])]]

\* The geometry warpParabolicVerticalCanvas computes: the output size and the
\* shift of every column.
warpParabolicVerticalMaps(srcCanvas, arcPx, boundsCanvas) ==
  LET G == VerticalGeom(srcCanvas.w, srcCanvas.h, WarpBounds(srcCanvas, boundsCanvas), arcPx)
  IN [w |-> G.w, outH |-> G.outH, D |-> G.D,
      fwds |-> [x \in 1 .. G.w |-> G.shiftN[x - 1] + G.extraTop * G.D]]

\* -------------------------------------- warpParabolicBottomOnlyCanvas
\* The per-call constants; startRatio100 is the start ratio in hundredths,
\* power a positive integer.  startY = startY100/100, bendRange =
\* bendRange100/100, safeArc = safe[1]/safe[2]; t = tN/nD after dividing by g.
BottomOnlyGeom(w, h, bounds, arcPx, power, startRatio100) ==
  LET span == ArcSpan(w, bounds)
      top == Max(0, bounds.minY)
      bottom == Min(h - 1, Max(bounds.minY + 1, bounds.maxY))
      glyphHeight == Max(1, bottom - top)
      startY100 == 100 * top + glyphHeight * Max(35, Min(90, startRatio100))
      bendRange100 == Max(100, 100 * bottom - startY100)
      lim == Rat(bendRange100 * 11, 5 * Max(101, 100 * power))
      safe == IF Abs(arcPx[1]) * lim[2] <= lim[1] * arcPx[2]
                THEN arcPx ELSE <<Sign(arcPx[1]) * lim[1], lim[2]>>
      g == GCD(100, GCD(startY100, bendRange100))
      L == LCM(100, safe[2])
      edgeD == safe[2] * span.hw2 * span.hw2
      edgeN == [x \in 0 .. w - 1 |-> -safe[1] * ArcCurveNum(span, x)]
      extraTop == Ceil(Max(0, -MinShift(edgeN, w)), edgeD) + 2
      extraBottom == Ceil(Max(0, MaxShift(edgeN, w)), edgeD) + 2
  IN [w |-> w, h |-> h, span |-> span, power |-> power,
      top |-> top, bottom |-> bottom,
      startY100 |-> startY100, bendRange100 |-> bendRange100,
      safe |-> safe, g |-> g, nD |-> bendRange100 \div g, L |-> L,
      extraTop |-> extraTop, extraBottom |-> extraBottom,
      outH |-> h + extraTop + extraBottom,
      D |-> L * span.hw2 * span.hw2 * IPow(bendRange100 \div g, power)]

\* Mutant: the full bend in every column (curve = 1), inside the parabola or not.
BottomOnlyShiftNumEveryColumn(G, x, sy) ==
  IF 100 * sy > G.startY100
    THEN LET tN == Min(G.nD, Max(0, (100 \div G.g) * sy - G.startY100 \div G.g))
         IN -(G.safe[1] * (G.L \div G.safe[2])) * G.span.hw2 * G.span.hw2 * IPow(tN, G.power)
    ELSE 0

\* shift = -safeArc * curve * t^power below startY inside the parabola, else 0.
BottomOnlyShiftNum(G, x, sy) ==
  IF 100 * sy > G.startY100 /\ ArcCurveNum(G.span, x) > 0
    THEN LET tN == Min(G.nD, Max(0, (100 \div G.g) * sy - G.startY100 \div G.g))
         IN -(G.safe[1] * (G.L \div G.safe[2])) * ArcCurveNum(G.span, x) * IPow(tN, G.power)
    ELSE 0

BottomOnlyRawMap(G, x) ==
  [i \in 1 .. G.h |-> (i - 1 + G.extraTop) * G.D + BottomOnlyShiftNum(G, x, i - 1)]

BottomOnlyForwardMap(G, x) == EnforceMonotonicity(BottomOnlyRawMap(G, x), G.D \div 100)

warpParabolicBottomOnlyCanvas(srcCanvas, arcPx, boundsCanvas, power, startRatio100) ==
  LET G == BottomOnlyGeom(srcCanvas.w, srcCanvas.h, WarpBounds(srcCanvas, boundsCanvas),
                          arcPx, power, startRatio100)
      cols == ResampleColumns(srcCanvas.px, [i \in 1 .. G.w |-> BottomOnlyForwardMap(G, i - 1)],
                              G.h, G.D, G.outH, Clear, <<>>)
  IN CanvasOf(G.w, G.outH, cols)

\* The geometry warpParabolicBottomOnlyCanvas computes: the output size and the
\* forward map of every column.
warpParabolicBottomOnlyMaps(srcCanvas, arcPx, boundsCanvas, power, startRatio100) ==
  LET G == BottomOnlyGeom(srcCanvas.w, srcCanvas.h, WarpBounds(srcCanvas, boundsCanvas),
                          arcPx, power, startRatio100)
  IN [w |-> G.w, outH |-> G.outH, D |-> G.D,
      fwds |-> [x \in 1 .. G.w |-> BottomOnlyForwardMap(G, x - 1)]]

\* ------------------------------------------------ gradient reprojection
\* The alpha plane of a canvas.
AlphaOf(canvas) == [p \in DOMAIN canvas.px |-> canvas.px[p][4]]

\* gc.fillRect(0, 0, w, h) with the chrome gradient: addChromeStops adds only
\* opaque #rrggbb colours, so every pixel of the filled canvas has alpha 255.
FillChrome(canvas) == [p \in DOMAIN canvas.px |-> 255]

\* Mutant: the clip keeps the gradient outside the body (destination-out).
DestinationOut(dstA, srcA) == [p \in DOMAIN dstA |-> (dstA[p] * (255 - srcA[p]) + 127) \div 255]

\* globalCompositeOperation = 'destination-in': the destination is kept
\* in proportion to the alpha of the image drawn over it.
DestinationIn(dstA, srcA) == [p \in DOMAIN dstA |-> (dstA[p] * srcA[p] + 127) \div 255]

\* bCtx.globalAlpha = cfg.gradientOpacity; bCtx.drawImage(gradCanvas, 0, 0):
\* the weight of the gradient at each pixel, as numerator over 255 * 100
\* (gradientOpacity100 is the opacity in hundredths).
GradientWeight(gradA, gradientOpacity100) == [p \in DOMAIN gradA |-> gradA[p] * gradientOpacity100]

\* ------------------------------------------------------------------ state
VARIABLES
  pc,            \* "layers", "measured", "warped", "rewarped", "graded"
  srcCanvas,     \* the layer handed to the warp
  boundsCanvas,  \* the reference layer the warp takes its bounds from
  glyphBounds,   \* the caller's getAlphaBounds(boundsCanvas)
  call,          \* the arguments of the warp call made
  out,           \* the canvas the warp returned
  first,         \* the canvas the first of two warp applications returned
  gradCanvas,    \* alpha plane of the clipped gradient canvas
  applied,       \* opacity and weight of the gradient drawn onto the warped body
  frame,         \* the locals of a warp call that is run column by column
  config,        \* the raw input record and the configuration normalised from it
  fx,            \* the fx layer (stroke and glow), its warp and the maps of that warp
  mem,           \* the canvas objects of a render: heap maps an object to its pixels, the
                 \* other fields name objects, reads and writes are those of the last step
  ui             \* the designer page: its form, its script variables isRendering and
                 \* renderTimer, and the render operations in progress

vars == <<pc, srcCanvas, boundsCanvas, glyphBounds, call, out, first, gradCanvas, applied, frame,
          config, fx, mem, ui>>

NoBounds == [minX |-> 0, minY |-> 0, maxX |-> -1, maxY |-> -1]
NoCall == [fn |-> "none"]
NoGradient == [opacity100 |-> 0, weight |-> <<>>]
NoFrame == [x |-> -1]
NoConfig == [raw |-> <<>>, cfg |-> <<>>]
NoFx == [layer |-> NoCanvas, out |-> NoCanvas, fwds |-> <<>>]
NoMem == [heap |-> <<>>, next |-> 1, base |-> 0, fxl |-> 0, body |-> 0, warpedBody |-> 0,
          warpedFx |-> 0, grad |-> 0, reads |-> {}, writes |-> {}]
NoUi == [page |-> "none"]

StartRatios10 == {2, 5, 9}
Powers == {1, 3}
Directions == {"down", "up"}
StartRatios100 == {20, 72}
GradientOpacities100 == {0, 92}

InitWith(layers) ==
  /\ pc = "layers"
  /\ srcCanvas \in layers
  /\ boundsCanvas = srcCanvas
  /\ glyphBounds = NoBounds
  /\ call = NoCall
  /\ out = NoCanvas
  /\ first = NoCanvas
  /\ gradCanvas = <<>>
  /\ applied = NoGradient
  /\ frame = NoFrame
  /\ config = NoConfig
  /\ fx = NoFx
  /\ mem = NoMem
  /\ ui = NoUi

Init == InitWith(GlyphLayers)

\* const glyphBounds = getAlphaBounds(baseLayer)
MeasureGlyph ==
  /\ pc = "layers"
  /\ glyphBounds' = getAlphaBounds(boundsCanvas)
  /\ pc' = "measured"
  /\ UNCHANGED <<srcCanvas, boundsCanvas, call, out, first, gradCanvas, applied, frame, config, fx, mem, ui>>

WarpBottomWeighted(bend2, startRatio10, power, direction) ==
  /\ pc = "measured"
  /\ call' = [fn |-> "bottomWeighted", bendPx |-> Rat(bend2, 2), startRatio10 |-> startRatio10,
              power |-> power, direction |-> direction]
  /\ out' = warpBottomWeightedCanvas(srcCanvas, Rat(bend2, 2), startRatio10, power,
                                     boundsCanvas, direction)
  /\ pc' = "warped"
  /\ UNCHANGED <<srcCanvas, boundsCanvas, glyphBounds, first, gradCanvas, applied, frame, config, fx, mem, ui>>

WarpParabolicVertical(arc2) ==
  /\ pc = "measured"
  /\ call' = [fn |-> "parabolicVertical", arcPx |-> Rat(arc2, 2)]
  /\ out' = warpParabolicVerticalCanvas(srcCanvas, Rat(arc2, 2), boundsCanvas)
  /\ pc' = "warped"
  /\ UNCHANGED <<srcCanvas, boundsCanvas, glyphBounds, first, gradCanvas, applied, frame, config, fx, mem, ui>>

WarpParabolicBottomOnly(arc2, power, startRatio100) ==
  /\ pc = "measured"
  /\ call' = [fn |-> "parabolicBottomOnly", arcPx |-> Rat(arc2, 2), power |-> power,
              startRatio100 |-> startRatio100]
  /\ out' = warpParabolicBottomOnlyCanvas(srcCanvas, Rat(arc2, 2), boundsCanvas,
                                          power, startRatio100)
  /\ pc' = "warped"
  /\ UNCHANGED <<srcCanvas, boundsCanvas, glyphBounds, first, gradCanvas, applied, frame, config, fx, mem, ui>>

\* The bottom-weighted warp applied to its own output with the same
\* arguments (boundsCanvas defaults to the canvas being warped).
WarpAgain ==
  /\ pc = "warped"
  /\ call.fn = "bottomWeighted"
  /\ first' = out
  /\ out' = warpBottomWeightedCanvas(out, call.bendPx, call.startRatio10, call.power,
                                     out, call.direction)
  /\ pc' = "rewarped"
  /\ UNCHANGED <<srcCanvas, boundsCanvas, glyphBounds, call, gradCanvas, applied, frame, config, fx, mem, ui>>

\* "Re-apply chrome gradient to warped body, clipped to its solid pixels."
ReprojectGradient(gradientOpacity100) ==
  /\ pc = "warped"
  /\ gradCanvas' = DestinationIn(FillChrome(out), AlphaOf(out))
  /\ applied' = [opacity100 |-> gradientOpacity100,
                  weight |-> GradientWeight(DestinationIn(FillChrome(out), AlphaOf(out)),
                                            gradientOpacity100)]
  /\ pc' = "graded"
  /\ UNCHANGED <<srcCanvas, boundsCanvas, glyphBounds, call, out, first, frame, config, fx, mem, ui>>

Next ==
  \/ MeasureGlyph
  \/ \E bend2 \in 0 .. MaxBend2, sr \in StartRatios10, p \in Powers, d \in Directions :
       WarpBottomWeighted(bend2, sr, p, d)
  \/ \E arc2 \in -MaxBend2 .. MaxBend2 : WarpParabolicVertical(arc2)
  \/ \E arc2 \in -MaxBend2 .. MaxBend2, p \in Powers, sr \in StartRatios100 :
       WarpParabolicBottomOnly(arc2, p, sr)
  \/ WarpAgain
  \/ \E g \in GradientOpacities100 : ReprojectGradient(g)

Spec == Init /\ [][Next]_vars

\* ------------------------------------------------ the warps, column by column
\* The column loops of the warps taken one column at a time.  frame holds the
\* locals of the running call: the per-call constants G computed before the
\* loop, the loop index, and the buffers the loop fills.  The pixels a column
\* writes are those of ResampleColumn and VerticalPixel above; these steps
\* follow the maps and the padding only.
SolidCanvas(w, h) == [w |-> w, h |-> h, px |-> [p \in Coords(w, h) |-> White]]

\* The buffers of the two documented scenarios: 40 x 60 and 100 x 20, solid white.
ScenarioLayers == {SolidCanvas(40, 60), SolidCanvas(100, 20)}

\* bend and arcPx of the scenario calls, in pixels.
ScenarioBends == {10, 20}

InitScenario == InitWith(ScenarioLayers)

\* warpBottomWeightedCanvas up to its column loop.
BeginBottomWeighted(bendPx, startRatio10, power, direction) ==
  /\ pc = "measured"
  /\ call' = [fn |-> "bottomWeighted", bendPx |-> bendPx, startRatio10 |-> startRatio10,
              power |-> power, direction |-> direction]
  /\ frame' = [x |-> 0,
               G |-> BottomGeom(srcCanvas.w, srcCanvas.h, getAlphaBounds(boundsCanvas),
                                bendPx, startRatio10, power, direction),
               fwd |-> <<>>]
  /\ pc' = "columns"
  /\ UNCHANGED <<srcCanvas, boundsCanvas, glyphBounds, out, first, gradCanvas, applied, config, fx, mem, ui>>

\* One pass of "for (let ox = 0; ox < w; ox++)": the forward map of column ox
\* is built in the reused buffer fwd.
BottomWeightedColumn ==
  /\ pc = "columns"
  /\ call.fn = "bottomWeighted"
  /\ frame.x < frame.G.w
  /\ frame' = [frame EXCEPT !.x = @ + 1, !.fwd = ForwardMap(frame.G, frame.x)]
  /\ UNCHANGED <<pc, srcCanvas, boundsCanvas, glyphBounds, call, out, first, gradCanvas, applied, config, fx, mem, ui>>

\* warpParabolicVerticalCanvas up to its first column loop.  The shifts are
\* numerators over D = arcPx[2] * hw2 * hw2.
BeginParabolicVertical(arcPx) ==
  /\ pc = "measured"
  /\ call' = [fn |-> "parabolicVertical", arcPx |-> arcPx]
  /\ frame' = LET span == ArcSpan(srcCanvas.w, getAlphaBounds(boundsCanvas))
              IN [x |-> 0, span |-> span, D |-> arcPx[2] * span.hw2 * span.hw2,
                  shifts |-> <<>>, minShift |-> 0, maxShift |-> 0]
  /\ pc' = "columns"
  /\ UNCHANGED <<srcCanvas, boundsCanvas, glyphBounds, out, first, gradCanvas, applied, config, fx, mem, ui>>

\* One pass of the first "for (let x = 0; x < w; x++)": shifts[x] and the
\* running minimum and maximum.
ParabolicShiftColumn ==
  /\ pc = "columns"
  /\ call.fn = "parabolicVertical"
  /\ frame.x < srcCanvas.w
  /\ LET shift == -call.arcPx[1] * ArcCurveNum(frame.span, frame.x)
     IN frame' = [frame EXCEPT !.x = @ + 1,
                               !.shifts = Append(@, shift),
                               !.minShift = IF shift < @ THEN shift ELSE @,
                               !.maxShift = IF shift > @ THEN shift ELSE @]
  /\ UNCHANGED <<pc, srcCanvas, boundsCanvas, glyphBounds, call, out, first, gradCanvas, applied, config, fx, mem, ui>>

\* After the loop: extraTop, extraBottom and outH, and the empty output canvas.
PadParabolicVertical ==
  /\ pc = "columns"
  /\ call.fn = "parabolicVertical"
  /\ frame.x = srcCanvas.w
  /\ LET extraTop == Ceil(Max(0, -frame.minShift), frame.D) + 2
         extraBottom == Ceil(Max(0, frame.maxShift), frame.D) + 2
     IN /\ frame' = [x |-> frame.x, span |-> frame.span, D |-> frame.D,
                     shifts |-> frame.shifts, minShift |-> frame.minShift,
                     maxShift |-> frame.maxShift,
                     extraTop |-> extraTop, extraBottom |-> extraBottom,
                     outH |-> srcCanvas.h + extraTop + extraBottom]
        /\ out' = createCanvas(srcCanvas.w, srcCanvas.h + extraTop + extraBottom)
  /\ pc' = "padded"
  /\ UNCHANGED <<srcCanvas, boundsCanvas, glyphBounds, call, first, gradCanvas, applied, config, fx, mem, ui>>

NextScenario ==
  \/ MeasureGlyph
  \/ \E b \in ScenarioBends, d \in Directions : BeginBottomWeighted(<<b, 1>>, 5, 1, d)
  \/ BottomWeightedColumn
  \/ \E b \in ScenarioBends, s \in {-1, 1} : BeginParabolicVertical(<<s * b, 1>>)
  \/ ParabolicShiftColumn
  \/ PadParabolicVertical

SpecScenario == InitScenario /\ [][NextScenario]_vars

\* --------------------------------------------------------- the null warps
\* Arbitrary buffers under the warps called with bend = 0 and arcPx = 0.
InitNull == InitWith(AnyBuffers)

NextNull ==
  \/ MeasureGlyph
  \/ \E sr \in StartRatios10, p \in Powers, d \in Directions : WarpBottomWeighted(0, sr, p, d)
  \/ WarpParabolicVertical(0)
  \/ \E p \in Powers, sr \in StartRatios100 : WarpParabolicBottomOnly(0, p, sr)
  \/ WarpAgain

SpecNull == InitNull /\ [][NextNull]_vars

\* ------------------------------------------- the image tool: content bounds
Black == <<0, 0, 0, 255>>
NearWhite == <<250, 250, 250, 255>>

\* Every image of at most MaxPixels pixels over transparent, white,
\* near-white and black pixels.
ImageBuffers ==
  UNION { UNION { { [w |-> w, h |-> h, px |-> f] :
                      f \in [Coords(w, h) -> {Clear, White, NearWhite, Black}] }
                  : h \in 1 .. MaxPixels \div w }
          : w \in 1 .. MaxPixels }

\* The bgTolerance values passed to getContentBounds.
BgTolerances == {2, 14}

colorDistanceSq(r1, g1, b1, r2, g2, b2) ==
  (r1 - r2) * (r1 - r2) + (g1 - g2) * (g1 - g2) + (b1 - b2) * (b1 - b2)

readPixel(canvas, x, y) == canvas.px[<<x, y>>]

\* Math.round(s / 4) for s >= 0.
RoundQuarter(s) == (s + 2) \div 4

\* The rounded per-channel average of the four corner pixels.
detectBgColor(canvas) ==
  LET p1 == readPixel(canvas, 0, 0)
      p2 == readPixel(canvas, canvas.w - 1, 0)
      p3 == readPixel(canvas, 0, canvas.h - 1)
      p4 == readPixel(canvas, canvas.w - 1, canvas.h - 1)
  IN [c \in 1 .. 4 |-> RoundQuarter(p1[c] + p2[c] + p3[c] + p4[c])]

\* Mutant: under an opaque background the colour distance alone decides.
IsContentPixelByColour(p, bg, bgTolerance) ==
  IF bg[4] > 200
    THEN colorDistanceSq(p[1], p[2], p[3], bg[1], bg[2], bg[3]) > bgTolerance * bgTolerance
    ELSE p[4] > 2

\* The body of the pixel loop of getContentBounds: "if (a <= 2) continue",
\* then the colour test when the background is opaque.
IsContentPixel(p, bg, bgTolerance) ==
  IF p[4] <= 2 THEN FALSE
  ELSE IF bg[4] > 200
         THEN colorDistanceSq(p[1], p[2], p[3], bg[1], bg[2], bg[3]) > bgTolerance * bgTolerance
         ELSE TRUE

\* The inner loop of getContentBounds.  (acc.maxX < width always holds, as
\* in AlphaScanRow.)
RECURSIVE ContentScanRow(_, _, _, _, _, _)
ContentScanRow(canvas, bg, bgTolerance, y, x, acc) ==
  IF x >= canvas.w \/ acc.maxX >= canvas.w THEN acc
  ELSE ContentScanRow(canvas, bg, bgTolerance, y, x + 1,
         IF IsContentPixel(canvas.px[<<x, y>>], bg, bgTolerance)
           THEN [minX |-> IF x < acc.minX THEN x ELSE acc.minX,
                 minY |-> IF y < acc.minY THEN y ELSE acc.minY,
                 maxX |-> IF x > acc.maxX THEN x ELSE acc.maxX,
                 maxY |-> IF y > acc.maxY THEN y ELSE acc.maxY]
           ELSE acc)

RECURSIVE ContentScan(_, _, _, _, _)
ContentScan(canvas, bg, bgTolerance, y, acc) ==
  IF y >= canvas.h \/ acc.maxY >= canvas.h THEN acc
  ELSE ContentScan(canvas, bg, bgTolerance, y + 1,
                   ContentScanRow(canvas, bg, bgTolerance, y, 0, acc))

getContentBounds(canvas, bgTolerance) ==
  LET r == ContentScan(canvas, detectBgColor(canvas), bgTolerance, 0,
             [minX |-> canvas.w, minY |-> canvas.h, maxX |-> -1, maxY |-> -1])
  IN IF r.maxX < 0
       THEN [minX |-> 0, minY |-> 0, maxX |-> canvas.w - 1, maxY |-> canvas.h - 1]
       ELSE r

\* DEFAULTS.bgTolerance, the default of the second parameter of getContentBounds.
DefaultBgTolerance == 14

\* Mutant: out-of-range rows get the corner average whatever its alpha.
ImageFillAlways(bg) == bg

\* The pixel of the out-of-range rows: the output is pre-filled with the
\* background when it is opaque (bg.a > 200), else those rows are cleared.
ImageFill(bg) == IF bg[4] > 200 THEN bg ELSE Clear

\* The per-call constants of the image tool's warpBottomWeightedCanvas: those of
\* the renderer's, with the bounds taken by getContentBounds(boundsCanvas).
ImageGeom(srcImage, bendPx, startRatio10, power, boundsImage, direction) ==
  BottomGeom(srcImage.w, srcImage.h, getContentBounds(boundsImage, DefaultBgTolerance),
             bendPx, startRatio10, power, direction)

\* warpBottomWeightedCanvas of the image tool.
warpBottomWeightedImage(srcImage, bendPx, startRatio10, power, boundsImage, direction) ==
  LET G == ImageGeom(srcImage, bendPx, startRatio10, power, boundsImage, direction)
      cols == ResampleColumns(srcImage.px, [i \in 1 .. G.w |-> ForwardMap(G, i - 1)],
                              G.h, G.D, G.outH, ImageFill(detectBgColor(srcImage)), <<>>)
  IN CanvasOf(G.w, G.outH, cols)

\* cfg.bend of the image tool, in tenths.
ImageBends10 == {3, 9}

InitImage == InitWith(ImageBuffers)

\* const bounds = getContentBounds(src, cfg.bgTolerance)
MeasureContent(bgTolerance) ==
  /\ pc = "layers"
  /\ call' = [fn |-> "getContentBounds", bgTolerance |-> bgTolerance]
  /\ glyphBounds' = getContentBounds(srcCanvas, bgTolerance)
  /\ pc' = "measured"
  /\ UNCHANGED <<srcCanvas, boundsCanvas, out, first, gradCanvas, applied, frame, config, fx, mem, ui>>

\* main: glyphHeight, bendPx = glyphHeight * cfg.bend, and the warp of src
\* with src as its own reference canvas.
WarpImage(bend10, startRatio10, power, direction) ==
  /\ pc = "measured"
  /\ call.fn = "getContentBounds"
  /\ LET glyphHeight == Max(1, glyphBounds.maxY - glyphBounds.minY)
         bendPx == Rat(glyphHeight * bend10, 10)
     IN /\ call' = [fn |-> "imageWarp", bendPx |-> bendPx, startRatio10 |-> startRatio10,
                    power |-> power, direction |-> direction,
                    bgTolerance |-> call.bgTolerance]
        /\ out' = warpBottomWeightedImage(srcCanvas, bendPx, startRatio10, power,
                                          srcCanvas, direction)
  /\ pc' = "warped"
  /\ UNCHANGED <<srcCanvas, boundsCanvas, glyphBounds, first, gradCanvas, applied, frame, config, fx, mem, ui>>

NextImage ==
  \/ \E tol \in BgTolerances : MeasureContent(tol)
  \/ \E b \in ImageBends10, sr \in StartRatios10, p \in Powers, d \in Directions :
       WarpImage(b, sr, p, d)

SpecImage == InitImage /\ [][NextImage]_vars

\* ------------------------------------------------- configuration records
\* A raw input value is [k, v]: k = "num" for a finite number, v its value in
\* hundredths; k = "nan" for a value Number() maps to NaN or an infinity;
\* k = "missing" for undefined, null and ''; k = "str" for a string, v the
\* string; k = "hex" for a colour string, v its description.
Missing == [k |-> "missing", v |-> 0]
NotANumber == [k |-> "nan", v |-> 0]
Num(v) == [k |-> "num", v |-> v]
Str(v) == [k |-> "str", v |-> v]

\* A colour string: "#" and the hex digits ds (each 0..15), written in upper
\* or lower case, with or without surrounding blanks; and the input holding it.
ColorString(ds, upper, blanks) == [ds |-> ds, upper |-> upper, blanks |-> blanks]
Hex(ds, upper, blanks) == [k |-> "hex", v |-> ColorString(ds, upper, blanks)]

\* String.prototype.trim and toLowerCase on a colour string.
Trim(color) == [color EXCEPT !.blanks = FALSE]
ToLowerCase(color) == [color EXCEPT !.upper = FALSE]

\* Math.round of a value in hundredths.
Round100(v) == (v + 50) \div 100

Clamp(lo, hi, v) == Max(lo, Min(hi, v))

\* DEFAULT_CONFIG, numbers in hundredths except size and curve.
DEFAULT_CONFIG ==
  [size |-> 300, bend |-> 18, curve |-> 16, gradientOpacity |-> 92, renderScale |-> 300,
   edge3dStrength |-> 100, warpStartRatio |-> 62, warpPower |-> 140,
   curveMode |-> "flat", warpDirection |-> "down", curveScope |-> "full",
   topColor |-> ColorString(<<11, 6, 6, 14, 11, 8>>, FALSE, FALSE),
   midColor |-> ColorString(<<15, 15, 15, 15, 15, 15>>, FALSE, FALSE),
   bottomColor |-> ColorString(<<4, 10, 0, 15, 5, 9>>, FALSE, FALSE),
   outlineColor |-> ColorString(<<15, 2, 14, 11, 15, 15>>, FALSE, FALSE),
   glowColor |-> ColorString(<<15, 15, 15, 15, 15, 15>>, FALSE, FALSE)]

INTEGER_KEYS == {"size", "curve"}
FLOAT_KEYS == {"bend", "gradientOpacity", "renderScale", "edge3dStrength",
               "warpStartRatio", "warpPower"}
ENUM_KEYS == {"curveMode", "warpDirection", "curveScope"}
COLOR_KEYS == {"topColor", "midColor", "bottomColor", "outlineColor", "glowColor"}

\* The values each enumerated field admits.
EnumDomain(key) ==
  CASE key = "curveMode" -> {"flat", "arc", "arcCurve", "bottomWarp"}
    [] key = "warpDirection" -> {"down", "up"}
    [] key = "curveScope" -> {"full", "bottomOnly"}

\* for (const key of INTEGER_KEYS): Math.round of a finite number, else the default.
NormalizeInteger(raw, default) == IF raw.k = "num" THEN Round100(raw.v) ELSE default

\* for (const key of FLOAT_KEYS): a finite number is kept, else the default.
NormalizeFloat(raw, default) == IF raw.k = "num" THEN raw.v ELSE default

\* String(cfg[key] || default), then the default unless the value is listed.
NormalizeEnum(raw, domain, default) ==
  IF raw.k = "str" /\ raw.v \in domain THEN raw.v ELSE default

\* Mutant: a three-digit colour is returned as it is, and the case is kept.
normalizeHexColorUnexpanded(raw, fallback) ==
  IF raw.k = "hex" /\ Len(raw.v.ds) \in {3, 6} THEN Trim(raw.v) ELSE fallback

\* normalizeHexColor: trim, #rrggbb lowercased, #rgb expanded, else the fallback.
normalizeHexColor(raw, fallback) ==
  IF raw.k # "hex" THEN ToLowerCase(fallback)
  ELSE LET color == Trim(raw.v)
           ds == color.ds
       IN IF Len(ds) = 6 THEN ToLowerCase(color)
          ELSE IF Len(ds) = 3
            THEN ToLowerCase([color EXCEPT !.ds = <<ds[1], ds[1], ds[2], ds[2], ds[3], ds[3]>>])
          ELSE ToLowerCase(fallback)

\* Math.max(0, Math.min(1.5, Number(cfg.edge3dStrength) || DEFAULT)).
NormalizeStrength(v, default) == Clamp(0, 150, IF v = 0 THEN default ELSE v)

\* normalizeConfig on the fields modelled (no preset).
normalizeConfig(raw) ==
  [size |-> NormalizeInteger(raw.size, DEFAULT_CONFIG.size),
   curve |-> Clamp(-100, 100, NormalizeInteger(raw.curve, DEFAULT_CONFIG.curve)),
   bend |-> NormalizeFloat(raw.bend, DEFAULT_CONFIG.bend),
   gradientOpacity |-> NormalizeFloat(raw.gradientOpacity, DEFAULT_CONFIG.gradientOpacity),
   renderScale |-> NormalizeFloat(raw.renderScale, DEFAULT_CONFIG.renderScale),
   edge3dStrength |-> NormalizeStrength(NormalizeFloat(raw.edge3dStrength,
                                                       DEFAULT_CONFIG.edge3dStrength),
                                        DEFAULT_CONFIG.edge3dStrength),
   warpStartRatio |-> NormalizeFloat(raw.warpStartRatio, DEFAULT_CONFIG.warpStartRatio),
   warpPower |-> NormalizeFloat(raw.warpPower, DEFAULT_CONFIG.warpPower),
   curveMode |-> NormalizeEnum(raw.curveMode, EnumDomain("curveMode"), DEFAULT_CONFIG.curveMode),
   warpDirection |-> NormalizeEnum(raw.warpDirection, EnumDomain("warpDirection"),
                                   DEFAULT_CONFIG.warpDirection),
   curveScope |-> NormalizeEnum(raw.curveScope, EnumDomain("curveScope"),
                                DEFAULT_CONFIG.curveScope),
   topColor |-> normalizeHexColor(raw.topColor, DEFAULT_CONFIG.topColor),
   midColor |-> normalizeHexColor(raw.midColor, DEFAULT_CONFIG.midColor),
   bottomColor |-> normalizeHexColor(raw.bottomColor, DEFAULT_CONFIG.bottomColor),
   outlineColor |-> normalizeHexColor(raw.outlineColor, DEFAULT_CONFIG.outlineColor),
   glowColor |-> normalizeHexColor(raw.glowColor, DEFAULT_CONFIG.glowColor)]

\* Number(x) || DEFAULT: the default replaces NaN and 0.
OrDefault(raw, default) == IF raw.k = "num" /\ raw.v # 0 THEN raw.v ELSE default

\* DEFAULTS of the image tool, in hundredths.
DEFAULTS ==
  [bend |-> 30, startRatio |-> 78, power |-> 210, bgTolerance |-> 1400, scale |-> 300,
   direction |-> "down"]

\* String(cfg.direction || 'down').toLowerCase() === 'up' ? 'up' : 'down'
ParseDirection(raw) ==
  IF raw.k = "str" /\ raw.v \in {"up", "UP", "Up", "uP"} THEN "up" ELSE "down"

\* parseArgs of the image tool on its numeric fields and the direction.
parseArgs(raw) ==
  [bend |-> Clamp(0, 95, OrDefault(raw.bend, DEFAULTS.bend)),
   startRatio |-> Clamp(20, 90, OrDefault(raw.startRatio, DEFAULTS.startRatio)),
   power |-> Clamp(50, 300, OrDefault(raw.power, DEFAULTS.power)),
   bgTolerance |-> Clamp(0, 8000, OrDefault(raw.bgTolerance, DEFAULTS.bgTolerance)),
   scale |-> Clamp(100, 600, OrDefault(raw.scale, DEFAULTS.scale)),
   direction |-> ParseDirection(raw.direction)]

\* An input record that sets nothing.
EmptyInput ==
  [key \in INTEGER_KEYS \cup FLOAT_KEYS \cup ENUM_KEYS \cup COLOR_KEYS |-> Missing]

EmptyArgs ==
  [key \in {"bend", "startRatio", "power", "bgTolerance", "scale", "direction"} |-> Missing]

\* The raw values tried: numbers below, inside and above the ranges, 0, NaN
\* and missing; strings inside and outside the enumerations; colour strings.
RawNumbers == {Missing, NotANumber, Num(0), Num(-100), Num(5), Num(50), Num(95), Num(250),
               Num(20000)}
RawSizes == {Missing, Num(0), Num(-3000), Num(3050)}
RawStrings == {Missing, Num(5), Str("flat"), Str("arc"), Str("arcCurve"), Str("bottomWarp"),
               Str("down"), Str("up"), Str("UP"), Str("full"), Str("bottomOnly"), Str("wave")}
RawColors == {Missing, Num(5), Str("red"), Hex(<<15, 0, 10>>, TRUE, FALSE),
              Hex(<<1, 2, 10, 11, 14, 15>>, TRUE, TRUE), Hex(<<0, 0, 0, 0, 0, 0>>, FALSE, FALSE),
              Hex(<<1, 2, 3, 4>>, FALSE, FALSE)}

\* Inputs that set one field, and inputs that set the fields of one pipeline.
FieldInputs ==
  {[EmptyInput EXCEPT ![key] = v] : key \in INTEGER_KEYS \cup FLOAT_KEYS, v \in RawNumbers}
    \cup {[EmptyInput EXCEPT ![key] = v] : key \in ENUM_KEYS, v \in RawStrings}
    \cup {[EmptyInput EXCEPT ![key] = v] : key \in COLOR_KEYS, v \in RawColors}

BottomWarpInputs ==
  {[EmptyInput EXCEPT !.curveMode = Str("bottomWarp"), !.renderScale = Num(100), !.size = z,
                      !.bend = b, !.warpStartRatio = sr, !.warpPower = p, !.warpDirection = d] :
     z \in RawSizes, b \in {Missing, Num(0), Num(50), Num(250)},
     sr \in {Missing, Num(0), Num(-100), Num(5), Num(50), Num(95)},
     p \in {Missing, Num(0), Num(5), Num(250), Num(20000)},
     d \in {Missing, Str("up"), Str("UP")}}

ArcCurveInputs ==
  {[EmptyInput EXCEPT !.curveMode = Str("arcCurve"), !.size = z, !.curve = c,
                      !.curveScope = sc, !.renderScale = rs] :
     z \in RawSizes, c \in {Missing, Num(0), Num(-5000), Num(250), Num(20000)},
     sc \in {Missing, Str("bottomOnly")}, rs \in {Missing, Num(100)}}

ArgInputs ==
  {[EmptyArgs EXCEPT ![key] = v] :
     key \in {"bend", "startRatio", "power", "bgTolerance", "scale"}, v \in RawNumbers}
    \cup {[EmptyArgs EXCEPT !.direction = v] : v \in RawStrings}
    \cup {[EmptyArgs EXCEPT !.bend = b, !.startRatio = sr] :
            b \in {Num(5), Num(50), Num(95)}, sr \in {Num(20), Num(50), Num(90)}}

\* The glyph bounds tried: glyphs of 1, 2, 11 and 41 rows.
GlyphSpans == {[minX |-> 0, minY |-> 0, maxX |-> 0, maxY |-> maxY] : maxY \in {0, 1, 10, 40}}

InitConfig ==
  /\ pc = "input"
  /\ config \in {[tool |-> "render", raw |-> r, cfg |-> <<>>] :
                   r \in FieldInputs \cup BottomWarpInputs \cup ArcCurveInputs}
                \cup {[tool |-> "warpImage", raw |-> a, cfg |-> <<>>] : a \in ArgInputs}
  /\ srcCanvas = NoCanvas
  /\ boundsCanvas = NoCanvas
  /\ glyphBounds = NoBounds
  /\ call = NoCall
  /\ out = NoCanvas
  /\ first = NoCanvas
  /\ gradCanvas = <<>>
  /\ applied = NoGradient
  /\ frame = NoFrame
  /\ fx = NoFx
  /\ mem = NoMem
  /\ ui = NoUi

\* render: const cfg = normalizeConfig(inputCfg)
NormalizeConfig ==
  /\ pc = "input"
  /\ config.tool = "render"
  /\ config' = [config EXCEPT !.cfg = normalizeConfig(config.raw)]
  /\ pc' = "config"
  /\ UNCHANGED <<srcCanvas, boundsCanvas, glyphBounds, call, out, first, gradCanvas, applied,
                 frame, fx, mem, ui>>

\* A configuration record as an input record: what normalizeConfig reads when
\* it is given its own result (size and curve are whole numbers there).
AsInput(cfg) ==
  [key \in DOMAIN cfg |->
     IF key \in INTEGER_KEYS THEN Num(100 * cfg[key])
     ELSE IF key \in FLOAT_KEYS THEN Num(cfg[key])
     ELSE IF key \in ENUM_KEYS THEN Str(cfg[key])
     ELSE [k |-> "hex", v |-> cfg[key]]]

\* The preview server's POST /api/render: the payload has been normalised,
\* and render(config) normalises the result once more.
RenderNormalized ==
  /\ pc = "config"
  /\ config.tool = "render"
  /\ config' = [config EXCEPT !.raw = AsInput(config.cfg),
                              !.cfg = normalizeConfig(AsInput(config.cfg))]
  /\ pc' = "served"
  /\ UNCHANGED <<srcCanvas, boundsCanvas, glyphBounds, call, out, first, gradCanvas, applied,
                 frame, fx, mem, ui>>

\* main: const cfg = parseArgs()
ParseArgs ==
  /\ pc = "input"
  /\ config.tool = "warpImage"
  /\ config' = [config EXCEPT !.cfg = parseArgs(config.raw)]
  /\ pc' = "config"
  /\ UNCHANGED <<srcCanvas, boundsCanvas, glyphBounds, call, out, first, gradCanvas, applied,
                 frame, fx, mem, ui>>

\* A call handed to a warp function by one of its callers: the warp called,
\* the bend as bendNum / bendDen pixels, the other parameters in hundredths,
\* the glyph height the caller measured and the glyph size in hundredths.
WarpParams(fn, warp, bendNum, bendDen, startRatio100, power100, direction, glyphH, size100) ==
  [fn |-> fn, warp |-> warp, bendNum |-> bendNum, bendDen |-> bendDen,
   startRatio100 |-> startRatio100, power100 |-> power100, direction |-> direction,
   glyphH |-> glyphH, size100 |-> size100]

\* render: scale = Math.max(1, cfg.renderScale || 1); hiCfg.size = cfg.size * scale.
HiSize100(cfg) == cfg.size * Max(100, IF cfg.renderScale = 0 THEN 100 ELSE cfg.renderScale)

\* drawWarpedStyledText: the parameters of its two bottom-weighted calls
\* (bend in 1/10000 px) for a base layer with the glyph bounds given.
drawWarpedStyledText(cfg, bounds) ==
  LET startRatio == Clamp(20, 90, IF cfg.warpStartRatio = 0 THEN 62 ELSE cfg.warpStartRatio)
      power == Clamp(50, 300, IF cfg.warpPower = 0 THEN 140 ELSE cfg.warpPower)
      direction == IF cfg.warpDirection = "up" THEN "up" ELSE "down"
      glyphH == Max(1, bounds.maxY - bounds.minY)
      warpRange == (100 - startRatio) * glyphH
      rawBend == HiSize100(cfg) * Clamp(8, 90, cfg.bend)
      bend == Min(rawBend, warpRange * 88)
  IN WarpParams("drawWarpedStyledText", "bottomWeighted", bend, 10000, startRatio, power,
                direction, glyphH, HiSize100(cfg))

\* drawCurveArcStyledText: the parameters of its warp calls (bend in 1/1000000
\* px), or no call when the curve is at most 0.001 px.
drawCurveArcStyledText(cfg, bounds) ==
  LET safeCurve == Clamp(-100, 100, cfg.curve)
      isBottomOnly == cfg.curveScope = "bottomOnly"
      curveRaw == safeCurve * HiSize100(cfg) * (IF isBottomOnly THEN 28 ELSE 140)
      glyphHeight == Max(1, bounds.maxY - bounds.minY + 1)
      maxCurve == glyphHeight * 720000
      curve == Sign(curveRaw) * Min(Abs(curveRaw), maxCurve)
      bend == Sign(curve) * Min(Abs(curve), glyphHeight * 900000)
  IN IF Abs(curve) <= 1000
       THEN WarpParams("drawCurveArcStyledText", "none", 0, 1000000, 0, 0, "down",
                       glyphHeight, HiSize100(cfg))
     ELSE IF isBottomOnly
       THEN WarpParams("drawCurveArcStyledText", "parabolicBottomOnly", bend, 1000000, 38, 110,
                       "down", glyphHeight, HiSize100(cfg))
     ELSE WarpParams("drawCurveArcStyledText", "parabolicVertical", curve, 1000000, 0, 0,
                     "down", glyphHeight, HiSize100(cfg))

\* main of the image tool: bendPx = glyphHeight * cfg.bend (in 1/10000 px)
\* for the content bounds given.
main(cfg, bounds) ==
  LET glyphHeight == Max(1, bounds.maxY - bounds.minY)
  IN WarpParams("main", "bottomWeighted", glyphHeight * cfg.bend * 100, 10000, cfg.startRatio,
                cfg.power, cfg.direction, glyphHeight, 0)

\* render with curveMode bottomWarp.
DrawWarped(bounds) ==
  /\ pc = "config"
  /\ config.tool = "render"
  /\ config.cfg.curveMode = "bottomWarp"
  /\ call' = drawWarpedStyledText(config.cfg, bounds)
  /\ pc' = "params"
  /\ UNCHANGED <<srcCanvas, boundsCanvas, glyphBounds, out, first, gradCanvas, applied,
                 frame, config, fx, mem, ui>>

\* render with curveMode arcCurve.
DrawCurveArc(bounds) ==
  /\ pc = "config"
  /\ config.tool = "render"
  /\ config.cfg.curveMode = "arcCurve"
  /\ call' = drawCurveArcStyledText(config.cfg, bounds)
  /\ pc' = "params"
  /\ UNCHANGED <<srcCanvas, boundsCanvas, glyphBounds, out, first, gradCanvas, applied,
                 frame, config, fx, mem, ui>>

\* The image tool's main after parseArgs.
MainWarp(bounds) ==
  /\ pc = "config"
  /\ config.tool = "warpImage"
  /\ call' = main(config.cfg, bounds)
  /\ pc' = "params"
  /\ UNCHANGED <<srcCanvas, boundsCanvas, glyphBounds, out, first, gradCanvas, applied,
                 frame, config, fx, mem, ui>>

NextConfig ==
  \/ NormalizeConfig
  \/ RenderNormalized
  \/ ParseArgs
  \/ \E bounds \in GlyphSpans : DrawWarped(bounds)
  \/ \E bounds \in GlyphSpans : DrawCurveArc(bounds)
  \/ \E bounds \in GlyphSpans : MainWarp(bounds)

SpecConfig == InitConfig /\ [][NextConfig]_vars

\* ------------------------------------------- the render pipeline on layers
\* drawWarpedStyledText and drawCurveArcStyledText on small layers.  The text
\* drawing of createStyledTextLayers is left out: the base layer is any glyph
\* of GlyphLayers, the side layer is empty, and the fx layer is the stroke
\* around the base glyph.  The warps take exact rational parameters, so the
\* start ratio is a multiple of 0.1 and the exponent is cut to its integer part
\* (the fixed exponent 1.1 of the bottom-only call becomes 1).
Exponent(power100) == Max(1, power100 \div 100)

\* The stroke: every pixel within one pixel of a glyph pixel.
FxLayerOf(base) ==
  [w |-> base.w, h |-> base.h,
   px |-> [p \in Coords(base.w, base.h) |->
             IF \E q \in Coords(base.w, base.h) :
                  /\ Abs(q[1] - p[1]) <= 1
                  /\ Abs(q[2] - p[2]) <= 1
                  /\ base.px[q][4] > 0
               THEN White ELSE Clear]]

RenderInputs ==
  {[EmptyInput EXCEPT !.curveMode = Str("bottomWarp"), !.renderScale = Num(100), !.size = z,
                      !.warpStartRatio = sr, !.warpPower = p, !.warpDirection = d] :
     z \in {Missing, Num(100)}, sr \in {Num(20), Num(50), Num(90)},
     p \in {Num(100), Num(200), Num(300)}, d \in {Missing, Str("up")}}
    \cup {[EmptyInput EXCEPT !.curveMode = Str("arcCurve"), !.renderScale = Num(100),
                             !.size = z, !.curve = c, !.curveScope = sc] :
            z \in {Missing, Num(100)}, c \in {Num(0), Num(-5000), Num(1600), Num(10000)},
            sc \in {Missing, Str("bottomOnly")}}

InitRender ==
  /\ pc = "input"
  /\ config \in {[tool |-> "render", raw |-> r, cfg |-> <<>>] : r \in RenderInputs}
  /\ srcCanvas \in GlyphLayers
  /\ boundsCanvas = srcCanvas
  /\ glyphBounds = NoBounds
  /\ call = NoCall
  /\ out = NoCanvas
  /\ first = NoCanvas
  /\ gradCanvas = <<>>
  /\ applied = NoGradient
  /\ frame = NoFrame
  /\ fx = [NoFx EXCEPT !.layer = FxLayerOf(srcCanvas)]
  /\ mem = NoMem
  /\ ui = NoUi

\* createStyledTextLayers, then bodyRaw = createCanvas(...) with the base
\* layer drawn into it.
CreateLayers ==
  /\ pc = "config"
  /\ config.cfg.curveMode \in {"bottomWarp", "arcCurve"}
  /\ mem' = [NoMem EXCEPT !.heap = <<boundsCanvas, fx.layer, srcCanvas>>, !.next = 4,
                          !.base = 1, !.fxl = 2, !.body = 3, !.reads = {1}, !.writes = {3}]
  /\ pc' = "layers"
  /\ UNCHANGED <<srcCanvas, boundsCanvas, glyphBounds, call, out, first, gradCanvas, applied,
                 frame, config, fx, ui>>

\* The parameters the drawing function of the configured mode hands to its warps.
RenderParams(cfg, bounds) ==
  IF cfg.curveMode = "bottomWarp" THEN drawWarpedStyledText(cfg, bounds)
  ELSE drawCurveArcStyledText(cfg, bounds)

\* The warp call of the parameters P on the layer src with the reference ref;
\* without a call the layer itself is the result.
WarpCanvas(P, src, ref) ==
  CASE P.warp = "bottomWeighted" ->
         warpBottomWeightedCanvas(src, Rat(P.bendNum, P.bendDen), P.startRatio100 \div 10,
                                  Exponent(P.power100), ref, P.direction)
    [] P.warp = "parabolicVertical" ->
         warpParabolicVerticalCanvas(src, Rat(P.bendNum, P.bendDen), ref)
    [] P.warp = "parabolicBottomOnly" ->
         warpParabolicBottomOnlyCanvas(src, Rat(P.bendNum, P.bendDen), ref,
                                       Exponent(P.power100), P.startRatio100)
    [] P.warp = "none" -> src

\* The geometry of that call.
WarpGeometry(P, src, ref) ==
  CASE P.warp = "bottomWeighted" ->
         warpBottomWeightedMaps(src, Rat(P.bendNum, P.bendDen), P.startRatio100 \div 10,
                                Exponent(P.power100), ref, P.direction)
    [] P.warp = "parabolicVertical" ->
         warpParabolicVerticalMaps(src, Rat(P.bendNum, P.bendDen), ref)
    [] P.warp = "parabolicBottomOnly" ->
         warpParabolicBottomOnlyMaps(src, Rat(P.bendNum, P.bendDen), ref,
                                     Exponent(P.power100), P.startRatio100)
    [] P.warp = "none" -> [w |-> src.w, outH |-> src.h, D |-> 1, fwds |-> <<>>]

\* Mutant: the warp writes its result into the canvas it reads.
NewCanvasInPlace(next, srcId) == srcId

\* const out = createCanvas(w, outH): a new canvas object.
NewCanvas(next, srcId) == next

\* The heap after the canvas object id was given the pixels of canvas.
Store(heap, id, canvas) ==
  [i \in 1 .. Max(Len(heap), id) |-> IF i = id THEN canvas ELSE heap[i]]

\* warpedBody = warp(bodyRaw, ..., baseLayer, ...)
WarpBody ==
  /\ pc = "measured"
  /\ LET P == RenderParams(config.cfg, glyphBounds)
         id == NewCanvas(mem.next, mem.body)
         warped == WarpCanvas(P, mem.heap[mem.body], mem.heap[mem.base])
     IN /\ call' = P
        /\ out' = warped
        /\ frame' = [x |-> -1, maps |-> WarpGeometry(P, mem.heap[mem.body], mem.heap[mem.base])]
        /\ mem' = IF P.warp = "none"
                    THEN [mem EXCEPT !.warpedBody = mem.body, !.reads = {}, !.writes = {}]
                    ELSE [mem EXCEPT !.heap = Store(mem.heap, id, warped), !.next = mem.next + 1,
                                     !.warpedBody = id, !.reads = {mem.body, mem.base},
                                     !.writes = {id}]
  /\ pc' = "bodywarped"
  /\ UNCHANGED <<srcCanvas, boundsCanvas, glyphBounds, first, gradCanvas, applied, config, fx, ui>>

\* warpedFx = warp(fxLayer, ..., baseLayer, ...) with the same parameters
WarpFx ==
  /\ pc = "bodywarped"
  /\ LET id == NewCanvas(mem.next, mem.fxl)
         warped == WarpCanvas(call, mem.heap[mem.fxl], mem.heap[mem.base])
     IN /\ fx' = [fx EXCEPT !.out = warped,
                            !.fwds = WarpGeometry(call, mem.heap[mem.fxl], mem.heap[mem.base])]
        /\ mem' = IF call.warp = "none"
                    THEN [mem EXCEPT !.warpedFx = mem.fxl, !.reads = {}, !.writes = {}]
                    ELSE [mem EXCEPT !.heap = Store(mem.heap, id, warped), !.next = mem.next + 1,
                                     !.warpedFx = id, !.reads = {mem.fxl, mem.base},
                                     !.writes = {id}]
  /\ pc' = "fxwarped"
  /\ UNCHANGED <<srcCanvas, boundsCanvas, glyphBounds, call, out, first, gradCanvas, applied,
                 frame, config, ui>>

\* const wbounds = getAlphaBounds(warpedBody)
MeasureWarped ==
  /\ pc = "fxwarped"
  /\ frame' = [x |-> -1, maps |-> frame.maps,
               wbounds |-> getAlphaBounds(mem.heap[mem.warpedBody])]
  /\ mem' = [mem EXCEPT !.reads = {mem.warpedBody}, !.writes = {}]
  /\ pc' = "rebounded"
  /\ UNCHANGED <<srcCanvas, boundsCanvas, glyphBounds, call, out, first, gradCanvas, applied,
                 config, fx, ui>>

\* gradCanvas = createCanvas(...), filled with the gradient and clipped to
\* the warped body by drawing the body over it with destination-in.
ClipGradient ==
  /\ pc = "rebounded"
  /\ gradCanvas' = DestinationIn(FillChrome(mem.heap[mem.warpedBody]),
                                 AlphaOf(mem.heap[mem.warpedBody]))
  /\ mem' = [mem EXCEPT !.grad = mem.next, !.next = mem.next + 1,
                        !.reads = {mem.warpedBody}, !.writes = {mem.next}]
  /\ pc' = "clipped"
  /\ UNCHANGED <<srcCanvas, boundsCanvas, glyphBounds, call, out, first, applied, frame,
                 config, fx, ui>>

\* bCtx.globalAlpha = cfg.gradientOpacity; bCtx.drawImage(gradCanvas, 0, 0)
DrawGradient ==
  /\ pc = "clipped"
  /\ applied' = [opacity100 |-> config.cfg.gradientOpacity,
                  weight |-> GradientWeight(gradCanvas, config.cfg.gradientOpacity)]
  /\ mem' = [mem EXCEPT !.reads = {mem.grad}, !.writes = {mem.warpedBody}]
  /\ pc' = "graded"
  /\ UNCHANGED <<srcCanvas, boundsCanvas, glyphBounds, call, out, first, gradCanvas, frame,
                 config, fx, ui>>

\* Mutant: the fx layer is drawn onto the body before the gradient.
CompositeFxFirst ==
  /\ pc = "clipped"
  /\ mem' = [mem EXCEPT !.reads = {mem.warpedFx}, !.writes = {mem.warpedBody}]
  /\ pc' = "composited"
  /\ UNCHANGED <<srcCanvas, boundsCanvas, glyphBounds, call, out, first, gradCanvas, applied,
                 frame, config, fx, ui>>

\* bCtx.drawImage(warpedFx, 0, 0)
CompositeFx ==
  /\ pc = "graded"
  /\ mem' = [mem EXCEPT !.reads = {mem.warpedFx}, !.writes = {mem.warpedBody}]
  /\ pc' = "composited"
  /\ UNCHANGED <<srcCanvas, boundsCanvas, glyphBounds, call, out, first, gradCanvas, applied,
                 frame, config, fx, ui>>

\* ctx.drawImage(warpedBody, targetX, targetY): the body goes onto the canvas
\* of the caller's context, which is object 0.
PlaceBody ==
  /\ pc = "composited"
  /\ mem' = [mem EXCEPT !.reads = {mem.warpedBody}, !.writes = {0}]
  /\ pc' = "placed"
  /\ UNCHANGED <<srcCanvas, boundsCanvas, glyphBounds, call, out, first, gradCanvas, applied,
                 frame, config, fx, ui>>

NextRender ==
  \/ NormalizeConfig
  \/ CreateLayers
  \/ MeasureGlyph
  \/ WarpBody
  \/ WarpFx
  \/ MeasureWarped
  \/ ClipGradient
  \/ DrawGradient
  \/ CompositeFx
  \/ PlaceBody

SpecRender == InitRender /\ [][NextRender]_vars

\* ================================================================ properties
\* The geometry of the bottom-weighted call made, and its forward maps.
CallGeom ==
  BottomGeom(srcCanvas.w, srcCanvas.h, getAlphaBounds(boundsCanvas),
             call.bendPx, call.startRatio10, call.power, call.direction)

\* Was the warp called with bend = 0 (arcPx = 0)?
NullCall ==
  \/ call.fn = "bottomWeighted" /\ call.bendPx[1] = 0
  \/ call.fn \in {"parabolicVertical", "parabolicBottomOnly"} /\ call.arcPx[1] = 0

\* C1 -- Identity.  For each of the three warps called with bend = 0
\* (arcPx = 0) on any buffer, the output has the width of the input and its
\* pixel (x, y + topPadding) is the input pixel (x, y), for every column x and
\* source row y; topPadding is 2 for a null warp.
C1_Identity ==
  (pc = "warped" /\ NullCall) =>
    /\ out.w = srcCanvas.w
    /\ \A p \in Coords(srcCanvas.w, srcCanvas.h) :
         out.px[<<p[1], p[2] + 2>>] = srcCanvas.px[p]

\* A null bottom-only parabolic warp has returned a buffer of at least two
\* rows that holds an opaque pixel above a pixel of alpha 2.
C1_Witness ==
  /\ pc = "warped"
  /\ call.fn = "parabolicBottomOnly"
  /\ call.arcPx[1] = 0
  /\ srcCanvas.h >= 2
  /\ srcCanvas.px[<<0, 0>>] = White
  /\ srcCanvas.px[<<0, 1>>] = Faint
  /\ out.px[<<0, 3>>] = Faint

\* C2 -- Monotonicity.  In the bottom-weighted warp, for every column and
\* every combination of start ratio, power, direction and bend, the forward
\* map used for resampling is strictly increasing: fwd[y] > fwd[y-1], y >= 1.
C2_Monotonicity ==
  (pc = "warped" /\ call.fn = "bottomWeighted") =>
    \A ox \in 0 .. srcCanvas.w - 1 :
      LET fwd == ForwardMap(CallGeom, ox)
      IN \A i \in 2 .. srcCanvas.h : fwd[i] > fwd[i - 1]

\* A bottom-weighted warp has been made whose shifts alone would fold a
\* column: the map before the monotonicity pass is not increasing.
C2_Witness ==
  /\ pc = "warped"
  /\ call.fn = "bottomWeighted"
  /\ \E ox \in 0 .. srcCanvas.w - 1 :
       LET raw == RawMap(CallGeom, ox)
       IN \E i \in 2 .. srcCanvas.h : raw[i] <= raw[i - 1]

\* C3 -- Top rigidity.  In the bottom-weighted warp, for every column and
\* every source row y <= startWarpY, the final forward map is exactly
\* fwd[y] = y + topPadding, whatever bend, power and direction are;
\* topPadding is ceil(bend) + 2 for direction up and 2 for direction down.
C3_TopRigidity ==
  (pc = "warped" /\ call.fn = "bottomWeighted") =>
    LET G == CallGeom
        glyphTop == glyphBounds.minY
        glyphBottom == Max(glyphBounds.minY + 1, glyphBounds.maxY)
        topPadding == IF call.direction = "up"
                        THEN Ceil(call.bendPx[1], call.bendPx[2]) + 2 ELSE 2
    IN \A ox \in 0 .. srcCanvas.w - 1 : \A sy \in 0 .. srcCanvas.h - 1 :
         (10 * sy <= 10 * glyphTop + (glyphBottom - glyphTop) * call.startRatio10)
           => ForwardMap(G, ox)[sy + 1] = (sy + topPadding) * G.D

\* An upward warp with a positive bend has been made in which a row other
\* than the first lies at or above startWarpY and the monotonicity pass has
\* moved a row below it.
C3_Witness ==
  /\ pc = "warped"
  /\ call.fn = "bottomWeighted"
  /\ call.direction = "up"
  /\ call.bendPx[1] > 0
  /\ 10 <= CallGeom.swy10
  /\ \E ox \in 0 .. srcCanvas.w - 1 : ForwardMap(CallGeom, ox) # RawMap(CallGeom, ox)

\* The parabola of the parabolic call made, as numerator over hw2 * hw2.
CallArcSpan == ArcSpan(srcCanvas.w, getAlphaBounds(boundsCanvas))

ParabolicCall == call.fn \in {"parabolicVertical", "parabolicBottomOnly"}

C6_NullWarpTwicePads ==
  (pc = "rewarped" /\ NullCall) =>
    /\ out.w = first.w
    /\ out.h = first.h + 4
    /\ \A p \in Coords(out.w, out.h) :
         out.px[p] = IF p[2] \in 2 .. first.h + 1 THEN first.px[<<p[1], p[2] - 2>>] ELSE Clear

\* The null warp has been applied twice to a buffer whose first row holds
\* an opaque pixel.
C6_Witness ==
  /\ pc = "rewarped"
  /\ NullCall
  /\ srcCanvas.px[<<0, 0>>] = White
  /\ out.px[<<0, 4>>] = White

\* C6 as stated: warp(warp(B, 0), 0) = warp(B, 0).
C6_NullWarpIdempotent ==
  (pc = "rewarped" /\ NullCall) => out = first

\* The bottom-weighted scenario call is running on the 40 x 60 rectangle and
\* has built the forward map of at least one column.
BottomScenario ==
  /\ pc = "columns"
  /\ srcCanvas = SolidCanvas(40, 60)
  /\ call = [fn |-> "bottomWeighted", bendPx |-> <<10, 1>>, startRatio10 |-> 5,
             power |-> 1, direction |-> "down"]
  /\ frame.x >= 1

\* C7 -- Bottom-weighted scenario (as the code has it).  For the 40 x 60
\* solid white rectangle with startRatio = 0.5, power = 1, bend = 10,
\* direction = down: in every column the source rows 0..29 land at y + 2
\* (topPadding = 2), and source row 59 of column x is shifted down by
\* 10 * (1 - t^2) with t = (2x - 39) / 39: by 0 px at columns 0 and 39 and by
\* 10 * 1520/1521 px, which is less than 10 px, at the two columns 19 and 20
\* next to the horizontal centre; no column is shifted by the full 10 px.
\* (Values are numerators over the denominator D of the call.)
C7_BottomScenarioParabola ==
  BottomScenario =>
    LET x == frame.x - 1
        D == frame.G.D
        shift59 == frame.fwd[60] - (59 + 2) * D
    IN /\ \A y \in 0 .. 29 : frame.fwd[y + 1] = (y + 2) * D
       /\ shift59 = 10 * (D \div (39 * 39)) * (39 * 39 - (2 * x - 39) * (2 * x - 39))
       /\ D % (39 * 39) = 0
       /\ (x \in {0, 39}) => shift59 = 0
       /\ (x \in {19, 20}) => shift59 = 10 * (D \div 1521) * 1520
       /\ shift59 < 10 * D

\* The scenario call has built the forward map of column 19.
C7_Witness ==
  /\ BottomScenario
  /\ frame.x - 1 = 19
  /\ frame.fwd[60] > (59 + 2) * frame.G.D

\* C7 as stated: rows 0..29 unchanged, row 59 shifted by 0 px at the edge
\* columns and by 10 px at the centre column.
C7_BottomScenarioFullBend ==
  BottomScenario =>
    LET x == frame.x - 1
        D == frame.G.D
    IN /\ \A y \in 0 .. 29 : frame.fwd[y + 1] = (y + 2) * D
       /\ (x \in {0, 39}) => frame.fwd[60] = (59 + 2) * D
       /\ (x \in {19, 20}) => frame.fwd[60] = (59 + 2 + 10) * D

\* The parabolic scenario call (arcPx = 20) is running on the 100 x 20 buffer.
ArcScenario ==
  /\ pc \in {"columns", "padded"}
  /\ srcCanvas = SolidCanvas(100, 20)
  /\ call = [fn |-> "parabolicVertical", arcPx |-> <<20, 1>>]

\* C8 -- Full parabolic scenario and padding (as the code has it).  With
\* arcPx = 20 on the 100 x 20 buffer, column x is shifted by
\* -20 * (1 - nx^2) with nx = (2x - 99) / 99: by 0 px at columns 0 and 99
\* and by -20 * 9800/9801 px, short of -20 px, at the two columns 49 and 50
\* next to the centre.  The padding is the ceiling of the largest upward and
\* downward shift plus a fixed margin of 2 rows on each side: extraTop = 22,
\* extraBottom = 2, and the output height is 20 + 20 + 0 + 4 = 44; every
\* source row of every column lands inside the output.
\* (Shifts are numerators over D = 99 * 99.)
C8_ArcScenarioPadding ==
  ArcScenario =>
    /\ frame.D = 99 * 99
    /\ \A x \in 0 .. frame.x - 1 :
         /\ frame.shifts[x + 1] = -20 * (99 * 99 - (2 * x - 99) * (2 * x - 99))
         /\ (x \in {0, 99}) => frame.shifts[x + 1] = 0
         /\ (x \in {49, 50}) => frame.shifts[x + 1] = -20 * 9800
         /\ frame.shifts[x + 1] > -20 * frame.D
    /\ (pc = "padded") =>
         /\ frame.extraTop = Ceil(-frame.minShift, frame.D) + 2
         /\ frame.extraTop = 22
         /\ frame.extraBottom = 2
         /\ out.h = 44
         /\ out.w = 100
         /\ \A x \in 0 .. 99 :
              /\ frame.extraTop * frame.D + frame.shifts[x + 1] >= 0
              /\ (19 + frame.extraTop) * frame.D + frame.shifts[x + 1] <= (out.h - 1) * frame.D

\* The scenario call has computed all 100 shifts and sized its output.
C8_Witness ==
  /\ ArcScenario
  /\ pc = "padded"
  /\ frame.x = 100
  /\ frame.minShift < 0

\* C8 as stated: the centre column is shifted by -20 px, the edge columns by
\* 0 px, and the output height is the input height plus exactly the padding
\* the minimum and maximum shift need, with no fixed constant added.
C8_ArcScenarioExactPadding ==
  (ArcScenario /\ pc = "padded") =>
    /\ frame.shifts[1] = 0
    /\ frame.shifts[100] = 0
    /\ frame.shifts[50] = -20 * frame.D \/ frame.shifts[51] = -20 * frame.D
    /\ out.h = srcCanvas.h + Ceil(Max(0, -frame.minShift), frame.D)
                           + Ceil(Max(0, frame.maxShift), frame.D)

\* The pixels of a canvas with alpha > 2.
AlphaContent(canvas) == {p \in Coords(canvas.w, canvas.h) : canvas.px[p][4] > 2}

\* Is b the tight inclusive bounding box of the non-empty set S of pixels?
TightBox(b, S) ==
  /\ \A p \in S : b.minX <= p[1] /\ p[1] <= b.maxX /\ b.minY <= p[2] /\ p[2] <= b.maxY
  /\ \E p \in S : p[1] = b.minX
  /\ \E p \in S : p[1] = b.maxX
  /\ \E p \in S : p[2] = b.minY
  /\ \E p \in S : p[2] = b.maxY

FullBox(canvas) == [minX |-> 0, minY |-> 0, maxX |-> canvas.w - 1, maxY |-> canvas.h - 1]

\* C9 -- Alpha-only bounds detection.  For every buffer of width and height
\* at least 1, getAlphaBounds returns the tight inclusive bounding box of
\* exactly the pixels with alpha > 2, and the full-buffer bounds when no
\* pixel has alpha > 2; in both cases minX <= maxX and minY <= maxY.
C9_AlphaBounds ==
  (pc = "measured") =>
    /\ glyphBounds.minX <= glyphBounds.maxX
    /\ glyphBounds.minY <= glyphBounds.maxY
    /\ IF AlphaContent(boundsCanvas) = {}
         THEN glyphBounds = FullBox(boundsCanvas)
         ELSE TightBox(glyphBounds, AlphaContent(boundsCanvas))

\* Bounds have been measured on a buffer that holds a pixel of alpha 2
\* outside the box of its pixels of alpha > 2.
C9_Witness ==
  /\ pc = "measured"
  /\ AlphaContent(boundsCanvas) # {}
  /\ \E p \in Coords(boundsCanvas.w, boundsCanvas.h) :
       /\ boundsCanvas.px[p] = Faint
       /\ p[1] > glyphBounds.maxX \/ p[2] > glyphBounds.maxY

\* The sum of channel c over the four corner pixels of the image.
CornerSum(canvas, c) ==
  canvas.px[<<0, 0>>][c] + canvas.px[<<canvas.w - 1, 0>>][c]
    + canvas.px[<<0, canvas.h - 1>>][c] + canvas.px[<<canvas.w - 1, canvas.h - 1>>][c]

\* Is bg the per-channel average of the four corners, rounded to the nearest
\* integer?
IsCornerAverage(canvas, bg) ==
  \A c \in 1 .. 4 : 4 * bg[c] - CornerSum(canvas, c) \in -1 .. 2

\* C10 -- Background-aware bounds detection (as the code has it).  The
\* background is the rounded per-channel average of the four corner pixels.
\* A pixel is content iff its alpha is > 2 and, when the background alpha is
\* > 200, its squared RGB distance from the background exceeds tolerance^2
\* (when the background alpha is <= 200 every pixel of alpha > 2 is content).
\* getContentBounds returns the tight bounding box of the content pixels
\* under the tolerance passed, or the full buffer when there are none.
C10_ContentBoundsAlphaGated ==
  (pc = "measured" /\ call.fn = "getContentBounds") =>
    LET bg == detectBgColor(srcCanvas)
        tolSq == call.bgTolerance * call.bgTolerance
        far(p) == colorDistanceSq(srcCanvas.px[p][1], srcCanvas.px[p][2], srcCanvas.px[p][3],
                                  bg[1], bg[2], bg[3]) > tolSq
        S == {p \in Coords(srcCanvas.w, srcCanvas.h) :
                srcCanvas.px[p][4] > 2 /\ (bg[4] > 200 => far(p))}
    IN /\ IsCornerAverage(srcCanvas, bg)
       /\ IF S = {} THEN glyphBounds = FullBox(srcCanvas) ELSE TightBox(glyphBounds, S)

\* Bounds have been measured on an image of opaque background that holds a
\* transparent pixel outside the box of its content pixels.
C10_Witness ==
  /\ pc = "measured"
  /\ call.fn = "getContentBounds"
  /\ detectBgColor(srcCanvas)[4] > 200
  /\ glyphBounds # FullBox(srcCanvas)
  /\ \E p \in Coords(srcCanvas.w, srcCanvas.h) :
       /\ srcCanvas.px[p] = Clear
       /\ p[1] > glyphBounds.maxX \/ p[2] > glyphBounds.maxY
  /\ \E p \in Coords(srcCanvas.w, srcCanvas.h) : srcCanvas.px[p] = Black

\* C10 as stated: when the background alpha is high, a pixel is content iff
\* its squared RGB distance from the background exceeds tolerance^2, and the
\* bounds are the tight box of those pixels, or the full buffer when none.
C10_ContentBoundsByColour ==
  (pc = "measured" /\ call.fn = "getContentBounds" /\ detectBgColor(srcCanvas)[4] > 200) =>
    LET bg == detectBgColor(srcCanvas)
        tolSq == call.bgTolerance * call.bgTolerance
        S == {p \in Coords(srcCanvas.w, srcCanvas.h) :
                colorDistanceSq(srcCanvas.px[p][1], srcCanvas.px[p][2], srcCanvas.px[p][3],
                                bg[1], bg[2], bg[3]) > tolSq}
    IN IF S = {} THEN glyphBounds = FullBox(srcCanvas) ELSE TightBox(glyphBounds, S)

\* The geometry and the fill pixel of the bottom-weighted call made, in the
\* renderer and in the image tool.
WarpCallGeom ==
  IF call.fn = "imageWarp"
    THEN ImageGeom(srcCanvas, call.bendPx, call.startRatio10, call.power, srcCanvas,
                   call.direction)
    ELSE CallGeom

WarpCallFill ==
  IF call.fn = "imageWarp" /\ detectBgColor(srcCanvas)[4] > 200
    THEN detectBgColor(srcCanvas) ELSE <<0, 0, 0, 0>>

\* Is pixel q, channel by channel, between the pixels a and b?
Between(q, a, b) == \A c \in 1 .. 4 : Min(a[c], b[c]) <= q[c] /\ q[c] <= Max(a[c], b[c])

\* C11 -- Out-of-range output rows.  In the bottom-weighted warp, for every
\* column, every output row oy with oy < fwd[0] or oy > fwd[h-1] is fully
\* transparent, or carries exactly the detected background colour when the
\* source had an opaque background (image tool, background alpha > 200);
\* every output row inside [fwd[0], fwd[h-1]] is an interpolation of two
\* adjacent source rows sy and min(h-1, sy+1) of the same column.
C11_OutOfRangeRows ==
  (pc = "warped" /\ call.fn \in {"bottomWeighted", "imageWarp"}) =>
    LET G == WarpCallGeom
    IN \A ox \in 0 .. G.w - 1 :
         LET fwd == ForwardMap(G, ox)
         IN \A oy \in 0 .. G.outH - 1 :
              IF oy * G.D < fwd[1] \/ oy * G.D > fwd[G.h]
                THEN out.px[<<ox, oy>>] = WarpCallFill
                ELSE \E sy \in 0 .. G.h - 1 :
                       Between(out.px[<<ox, oy>>], srcCanvas.px[<<ox, sy>>],
                               srcCanvas.px[<<ox, Min(G.h - 1, sy + 1)>>])

\* The image tool has warped an image of opaque, not uniformly white,
\* background whose first row holds a black pixel: the padding rows carry
\* the background colour, which is neither transparent nor a source pixel.
C11_Witness ==
  /\ pc = "warped"
  /\ call.fn = "imageWarp"
  /\ detectBgColor(srcCanvas)[4] > 200
  /\ detectBgColor(srcCanvas) \notin {White, Black, NearWhite}
  /\ srcCanvas.px[<<0, 0>>] = Black
  /\ out.px[<<0, 0>>] = detectBgColor(srcCanvas)

\* A caller has handed its parameters to the bottom-weighted warp.
BottomWeightedParams == pc = "params" /\ call.warp = "bottomWeighted"

\* C12.  Caller bend clamp, as claimed: at every call of the bottom-weighted
\* warp, from drawWarpedStyledText and from the image tool's main, the bend in
\* pixels is at most (1 - startRatio) * glyph height times a factor strictly
\* below 1, so it is strictly below the available warp range.
C12_CallerBendClamp ==
  BottomWeightedParams =>
    call.bendNum * 100 < (100 - call.startRatio100) * call.glyphH * call.bendDen

\* The per-call constants of the bottom-weighted call the render made.
RenderGeom ==
  BottomGeom(srcCanvas.w, srcCanvas.h, getAlphaBounds(boundsCanvas),
             Rat(call.bendNum, call.bendDen), call.startRatio100 \div 10,
             Exponent(call.power100), call.direction)

\* A sequence of numbers is strictly increasing.
StrictlyIncreasing(f) == \A i \in 2 .. Len(f) : f[i - 1] < f[i]

\* The render warped the body with the bottom-weighted warp under a bend within
\* 0.88 of the available warp range.
BendWithinClamp ==
  /\ pc = "bodywarped"
  /\ call.warp = "bottomWeighted"
  /\ call.bendNum * 100 <= 88 * (100 - call.startRatio100) * call.glyphH * (call.bendDen \div 100)

\* C13.  The bend clamp prevents folding, as claimed: whenever bend is at most
\* 0.88 * (1 - startRatio) * glyphHeight, the raw forward map of every column
\* is strictly increasing and the monotonicity pass changes no value.
C13_ClampPreventsFolding ==
  BendWithinClamp =>
    \A ox \in 0 .. srcCanvas.w - 1 :
      /\ StrictlyIncreasing(RawMap(RenderGeom, ox))
      /\ ForwardMap(RenderGeom, ox) = RawMap(RenderGeom, ox)

\* The forward maps and the output height of the call made, for the two warps
\* that resample by the monotone scan.
ScanCall == pc = "warped" /\ call.fn \in {"bottomWeighted", "parabolicBottomOnly"}

ScanGeom ==
  IF call.fn = "bottomWeighted" THEN CallGeom
  ELSE BottomOnlyGeom(srcCanvas.w, srcCanvas.h, getAlphaBounds(boundsCanvas), call.arcPx,
                      call.power, call.startRatio100)

ScanMap(ox) ==
  IF call.fn = "bottomWeighted" THEN ForwardMap(ScanGeom, ox)
  ELSE BottomOnlyForwardMap(ScanGeom, ox)

\* The source rows read for output row oy of column ox: none when the row is
\* out of range, else the scan pointer and the row after it.
RowsRead(ox, oy) ==
  LET fwd == ScanMap(ox)
      sy == ScanPointers(fwd, srcCanvas.h, ScanGeom.D, ScanGeom.outH)[oy + 1]
  IN IF OutOfRange(fwd, srcCanvas.h, ScanGeom.D, oy) THEN {}
     ELSE {sy, LowerRow(srcCanvas.h, sy)}

\* C14.  Violating the bend contract never crashes: for every bend >= 0,
\* start ratio, power and direction and every buffer with w, h >= 1, the scan
\* of each column ends with its pointer in [0, max(0, h-2)], never moving
\* back, every source row read lies in [0, h-1], and the rows written are
\* exactly the rows [0, outH-1] of the output.
C14_NeverOutOfBounds ==
  ScanCall =>
    /\ out.w = srcCanvas.w
    /\ out.h = ScanGeom.outH
    /\ DOMAIN out.px = Coords(srcCanvas.w, ScanGeom.outH)
    /\ \A ox \in 0 .. srcCanvas.w - 1 :
         LET ptr == ScanPointers(ScanMap(ox), srcCanvas.h, ScanGeom.D, ScanGeom.outH)
         IN /\ Len(ptr) = ScanGeom.outH
            /\ \A oy \in 0 .. ScanGeom.outH - 1 :
                 /\ ptr[oy + 1] \in 0 .. Max(0, srcCanvas.h - 2)
                 /\ oy > 0 => ptr[oy] <= ptr[oy + 1]
                 /\ RowsRead(ox, oy) \subseteq 0 .. srcCanvas.h - 1

\* A bottom-weighted warp was made on a one-row buffer with a bend fifteen
\* times the warp range of its caller, and a row of the output was sampled.
C14_Witness ==
  /\ pc = "warped"
  /\ call.fn = "bottomWeighted"
  /\ srcCanvas.h = 1
  /\ call.bendPx = <<3, 2>>
  /\ call.startRatio10 = 9
  /\ \E ox \in 0 .. srcCanvas.w - 1, oy \in 0 .. ScanGeom.outH - 1 : RowsRead(ox, oy) # {}

\* The numeric fields of each tool, the range each is clamped to (none where
\* the field is not clamped) and its default.
NumericKeys(tool) ==
  IF tool = "render" THEN INTEGER_KEYS \cup FLOAT_KEYS
  ELSE {"bend", "startRatio", "power", "bgTolerance", "scale"}

FieldRange(tool, key) ==
  CASE tool = "render" /\ key = "curve" -> <<-100, 100>>
    [] tool = "render" /\ key = "edge3dStrength" -> <<0, 150>>
    [] tool = "warpImage" /\ key = "bend" -> <<0, 95>>
    [] tool = "warpImage" /\ key = "startRatio" -> <<20, 90>>
    [] tool = "warpImage" /\ key = "power" -> <<50, 300>>
    [] tool = "warpImage" /\ key = "bgTolerance" -> <<0, 8000>>
    [] tool = "warpImage" /\ key = "scale" -> <<100, 600>>
    [] OTHER -> <<>>

FieldDefault(tool, key) == IF tool = "render" THEN DEFAULT_CONFIG[key] ELSE DEFAULTS[key]

\* A finite input kept (rounded, for an integer field) or clamped to the
\* nearest bound of the range of its field.
KeptOrClamped(tool, key, v) ==
  LET kept == IF tool = "render" /\ key \in INTEGER_KEYS THEN Round100(v) ELSE v
      range == FieldRange(tool, key)
  IN IF range = <<>> THEN kept ELSE Clamp(range[1], range[2], kept)

\* C15.  Numeric parameter policy, as claimed: normalizeConfig and parseArgs
\* keep every finite numeric input or clamp it to the nearest bound of its
\* range, so a finite value such as 0 is never replaced by the default, and
\* substitute the default for a non-finite input.
C15_NumericPolicy ==
  pc = "config" =>
    \A key \in NumericKeys(config.tool) :
      /\ config.raw[key].k = "num" =>
           config.cfg[key] = KeptOrClamped(config.tool, key, config.raw[key].v)
      /\ config.raw[key].k = "nan" => config.cfg[key] = FieldDefault(config.tool, key)

\* The render pipeline has handed its parameters to a warp function.
RenderWarpCall == pc = "params" /\ config.tool = "render" /\ call.warp # "none"

\* C16.  Warp parameters reaching the engine are in range, as claimed: every
\* call of the render pipeline into a warp function passes a direction in
\* {down, up} and a bend in [0, size * 0.9] px; where it passes a start ratio
\* and a power they lie in [0.2, 0.9] and [0.5, 3.0]; and the start ratio and
\* power of a bottom-weighted call are the configured values clamped to those
\* ranges (raised to the lower bound when below, lowered to the upper bound
\* when above).
C16_WarpParamsInRange ==
  RenderWarpCall =>
    /\ call.direction \in {"down", "up"}
    /\ 0 <= call.bendNum
    /\ call.bendNum <= call.size100 * 9 * (call.bendDen \div 1000)
    /\ call.warp # "parabolicVertical" =>
         /\ call.startRatio100 \in 20 .. 90
         /\ call.power100 \in 50 .. 300
    /\ call.warp = "bottomWeighted" =>
         /\ call.startRatio100 = Clamp(20, 90, config.cfg.warpStartRatio)
         /\ call.power100 = Clamp(50, 300, config.cfg.warpPower)

\* normalizeConfig has returned.
Normalized == pc = "config" /\ config.tool = "render"

\* The value an enumerated field gets: the input when it is one of the
\* strings listed, else the default.
EnumExpected(raw, domain, default) ==
  IF \E v \in domain : raw = Str(v) THEN raw.v ELSE default

\* A colour input is valid when it is "#" and three or six hex digits.
ValidColor(raw) == raw.k = "hex" /\ Len(raw.v.ds) \in {3, 6}

\* The six digits a valid colour string stands for.
SixDigits(ds) == IF Len(ds) = 6 THEN ds ELSE [i \in 1 .. 6 |-> ds[(i + 1) \div 2]]

MirrorGeom ==
  BottomGeom(srcCanvas.w, srcCanvas.h, getAlphaBounds(boundsCanvas), call.bendPx,
             call.startRatio10, call.power, IF call.direction = "up" THEN "down" ELSE "up")

\* C18.  Direction mirroring: for the same buffer, bend, start ratio and
\* power, the bottom-weighted warp with direction up uses at every column and
\* source row the negated shift of direction down, and puts the ceil(bend)
\* rows of extra padding above instead of below (2 rows on the other side),
\* so both directions give outputs of the same height.
C18_DirectionMirroring ==
  (pc = "warped" /\ call.fn = "bottomWeighted") =>
    /\ CallGeom.D = MirrorGeom.D
    /\ \A ox \in 0 .. srcCanvas.w - 1, sy \in 0 .. srcCanvas.h - 1 :
         /\ ShiftNum(CallGeom, ox, sy) = -ShiftNum(MirrorGeom, ox, sy)
         /\ call.direction = "up" => ShiftNum(CallGeom, ox, sy) <= 0
         /\ call.direction = "down" => ShiftNum(CallGeom, ox, sy) >= 0
    /\ CallGeom.extraTop = MirrorGeom.extraBottom
    /\ CallGeom.extraBottom = MirrorGeom.extraTop
    /\ call.direction = "up" =>
         /\ CallGeom.extraTop = Ceil(call.bendPx[1], call.bendPx[2]) + 2
         /\ CallGeom.extraBottom = 2
    /\ call.direction = "down" =>
         /\ CallGeom.extraBottom = Ceil(call.bendPx[1], call.bendPx[2]) + 2
         /\ CallGeom.extraTop = 2
    /\ CallGeom.outH = MirrorGeom.outH
    /\ out.h = CallGeom.outH

\* An upward warp with a positive bend was made that shifts some row of some
\* column.
C18_Witness ==
  /\ pc = "warped"
  /\ call.fn = "bottomWeighted"
  /\ call.direction = "up"
  /\ call.bendPx[1] > 0
  /\ \E ox \in 0 .. srcCanvas.w - 1, sy \in 0 .. srcCanvas.h - 1 : ShiftNum(CallGeom, ox, sy) < 0

\* C19.  Shared geometry across layers: the body layer and the fx layer,
\* warped with the same parameters and the same reference layer, get the same
\* forward maps and the same output size, whatever their pixels; the geometry
\* is that of the buffer size, the parameters and the bounds of the reference
\* layer.
C19_SharedGeometry ==
  (pc = "fxwarped" /\ call.warp # "none") =>
    /\ fx.fwds = frame.maps
    /\ fx.out.w = out.w
    /\ fx.out.h = out.h
    /\ out.h = frame.maps.outH
    /\ frame.maps = WarpGeometry(call, [srcCanvas EXCEPT !.px = [p \in DOMAIN @ |-> Clear]],
                                 boundsCanvas)

\* The body and the fx layer were warped, the fx layer having other pixels
\* and other bounds than the body, and the warp moved some row.
C19_Witness ==
  /\ pc = "fxwarped"
  /\ call.warp = "bottomWeighted"
  /\ call.bendNum > 0
  /\ fx.layer # srcCanvas
  /\ getAlphaBounds(fx.layer) # getAlphaBounds(boundsCanvas)
  /\ glyphBounds.maxY > glyphBounds.minY
  /\ fx.out # out

\* The canvas objects a render has created so far.
Allocated == 1 .. mem.next - 1

\* C20.  No aliasing: each warp call of a render leaves the pixels of its
\* source layer and of its reference layer as they were and returns a canvas
\* object created by the call, distinct from both; and no step of the render
\* writes a canvas it reads.
C20_NoAliasing ==
  /\ pc \in {"bodywarped", "fxwarped"} /\ call.warp # "none" =>
       /\ mem.heap[mem.body] = srcCanvas
       /\ mem.heap[mem.base] = boundsCanvas
       /\ mem.heap[mem.fxl] = fx.layer
       /\ mem.warpedBody \notin {mem.body, mem.base, mem.fxl}
       /\ mem.heap[mem.warpedBody] = out
       /\ mem.writes \subseteq Allocated \ {mem.base, mem.fxl, mem.body}
  /\ pc = "fxwarped" /\ call.warp # "none" =>
       /\ mem.warpedFx \notin {mem.body, mem.base, mem.fxl, mem.warpedBody}
       /\ mem.heap[mem.warpedFx] = fx.out
  /\ pc \in {"layers", "measured", "bodywarped", "fxwarped", "rebounded", "clipped", "graded",
            "composited", "placed"} =>
       mem.reads \cap mem.writes = {}

\* Body and fx layer were warped by the bottom-only parabolic warp into
\* canvases taller than their sources, the fx warp reading the fx layer and
\* the reference layer and writing the canvas it returned.
C20_Witness ==
  /\ pc = "fxwarped"
  /\ call.warp = "parabolicBottomOnly"
  /\ mem.reads = {mem.fxl, mem.base}
  /\ mem.writes = {mem.warpedFx}
  /\ out.h > srcCanvas.h
  /\ out # srcCanvas

\* The positions of a warped render, in the order of the source text.
RenderOrder ==
  <<"bodywarped", "fxwarped", "rebounded", "clipped", "graded", "composited", "placed">>

\* C21.  Pipeline ordering: a warped render warps body and fx, then
\* recomputes the bounds of the warped body, then builds and clips the
\* gradient, then draws the gradient onto the body, then draws the fx layer
\* on top, then places the body on the output canvas, each step following the
\* one before it; the fx layer is drawn onto the body only after the gradient
\* has been drawn, and nothing is drawn with the gradient afterwards.
C21_PipelineOrder ==
  [][ /\ \A i \in 2 .. Len(RenderOrder) : pc' = RenderOrder[i] => pc = RenderOrder[i - 1]
      /\ pc' = "bodywarped" => pc = "measured"
      /\ pc' = "rebounded" => frame'.wbounds = getAlphaBounds(mem.heap[mem.warpedBody])
      /\ pc' = "graded" => /\ applied = NoGradient
                           /\ applied'.weight = GradientWeight(gradCanvas, applied'.opacity100)
                           /\ mem'.reads = {mem.grad}
                           /\ mem'.writes = {mem.warpedBody}
      /\ pc' = "composited" => /\ applied # NoGradient
                               /\ applied' = applied
                               /\ gradCanvas' = gradCanvas
                               /\ mem'.reads = {mem.warpedFx}
                               /\ mem'.writes = {mem.warpedBody}
      /\ pc' = "placed" => /\ applied' = applied
                           /\ mem'.reads = {mem.warpedBody}
                           /\ mem.warpedBody \notin mem'.writes ]_vars

\* A render in which both layers were really warped has placed its body, the
\* gradient having weight on some pixel.
C21_Witness ==
  /\ pc = "placed"
  /\ call.warp = "parabolicVertical"
  /\ out.h > srcCanvas.h
  /\ \E p \in DOMAIN applied.weight : applied.weight[p] > 0

\* The scan of column ox: its forward map and the pointer left by the while
\* loop at each output row.
ScanColumn(ox) ==
  LET fwd == ScanMap(ox)
  IN [fwd |-> fwd, ptr |-> ScanPointers(fwd, srcCanvas.h, ScanGeom.D, ScanGeom.outH)]

\* Output rows oy with fwd[0] <= oy <= fwd[h-1], for a forward map fwd.
InRangeRows(fwd) ==
  {oy \in 0 .. ScanGeom.outH - 1 :
     fwd[1] <= oy * ScanGeom.D /\ oy * ScanGeom.D <= fwd[srcCanvas.h]}

BottomOnlyCall == pc = "warped" /\ call.fn = "parabolicBottomOnly"

\* Is source row y of column x where the warp put it with no shift, at row
\* y + topPadding of the output?
Unmoved(x, y) == BottomOnlyForwardMap(ScanGeom, x)[y + 1] = (y + ScanGeom.extraTop) * ScanGeom.D

\* Is source row y at or above startY = top + glyphHeight * clamp(startRatio, 0.35, 0.9)?
AtOrAboveStartY(y) ==
  LET b == getAlphaBounds(boundsCanvas)
      top == Max(0, b.minY)
      bottom == Min(srcCanvas.h - 1, Max(b.minY + 1, b.maxY))
  IN 100 * y <= 100 * top + Max(1, bottom - top) * Max(35, Min(90, call.startRatio100))

\* C23.  Bottom-only parabolic rigidity: for every arcPx and power, every
\* source row y <= startY maps to exactly y + topPadding in every column and
\* its pixels are copied unchanged, and every column outside the span
\* [left, right] the warp bends over, left = max(0, minX) and
\* right = min(w-1, max(minX+1, maxX)), has zero shift on all rows; only rows
\* below startY inside that span move.
C23_BottomOnlyRigidity ==
  BottomOnlyCall =>
    LET b == getAlphaBounds(boundsCanvas)
        left == Max(0, b.minX)
        right == Min(srcCanvas.w - 1, Max(b.minX + 1, b.maxX))
    IN \A x \in 0 .. srcCanvas.w - 1, y \in 0 .. srcCanvas.h - 1 :
         /\ AtOrAboveStartY(y) =>
              /\ Unmoved(x, y)
              /\ out.px[<<x, y + ScanGeom.extraTop>>] = srcCanvas.px[<<x, y>>]
         /\ (x < left \/ x > right) => Unmoved(x, y)
         /\ ~Unmoved(x, y) => (~AtOrAboveStartY(y) /\ left <= x /\ x <= right)

\* A glyph three columns wide was bent: a row below startY moved in the
\* middle column while the rows above it and the edge columns stayed.
C23_Witness ==
  /\ BottomOnlyCall
  /\ srcCanvas.w = 3
  /\ srcCanvas.h = 3
  /\ call.arcPx[1] # 0
  /\ getAlphaBounds(boundsCanvas).minX = 0
  /\ getAlphaBounds(boundsCanvas).maxX = 2
  /\ ~Unmoved(1, 2)
  /\ Unmoved(1, 0)
  /\ Unmoved(0, 2)

\* C23 as stated: the columns outside the glyph's own bounds [minX, maxX]
\* have zero shift on all rows.
C23_OutsideGlyphUnmoved ==
  BottomOnlyCall =>
    LET b == getAlphaBounds(boundsCanvas)
    IN \A x \in 0 .. srcCanvas.w - 1, y \in 0 .. srcCanvas.h - 1 :
         /\ AtOrAboveStartY(y) => Unmoved(x, y)
         /\ (x < b.minX \/ x > b.maxX) => Unmoved(x, y)

\* ------------------------------------------------- classic arc layout
\* drawClassicArcStyledText and drawArcedText place one glyph per step.  A
\* text is a sequence of characters, each with its measured width (already
\* scaled by scaleX) and its number of UTF-16 code units; lengths along the
\* circle are angles times the radius.
MaxChars == 3
ArcWidths == {2, 4}
CodeUnits == {1, 2}
ArcSpacings == {-1, 0, 1}
RotateFactors100 == {28, 100}

ArcTexts ==
  UNION { [1 .. n -> [w : ArcWidths, units : CodeUnits]] : n \in 1 .. MaxChars }

\* text.length: the number of UTF-16 code units of the text.
RECURSIVE Length(_)
Length(text) == IF text = <<>> THEN 0 ELSE Head(text).units + Length(Tail(text))

\* Sum of the widths pushed by "for (const ch of text)", one per code point.
RECURSIVE SumWidths(_)
SumWidths(text) == IF text = <<>> THEN 0 ELSE Head(text).w + SumWidths(Tail(text))

\* charWidths[i]: undefined past the last code point.
CharWidthAt(charWidths, i) == IF i + 1 \in DOMAIN charWidths THEN Num(charWidths[i + 1]) ELSE Missing

\* a + b and a * k on numbers; undefined and NaN give NaN.
Plus(a, b) == IF a.k = "num" /\ b.k = "num" THEN Num(a.v + b.v) ELSE NotANumber
Times(a, n) == IF a.k = "num" THEN Num(a.v * n) ELSE NotANumber

InitArc ==
  /\ pc = "arcinput"
  /\ call \in {[fn |-> "drawClassicArcStyledText", text |-> t, spacing |-> s, isFlat |-> f,
                rotateFactor100 |-> r] :
                 t \in ArcTexts, s \in ArcSpacings, f \in BOOLEAN, r \in RotateFactors100}
            \cup {[fn |-> "drawArcedText", text |-> t, spacing |-> 1, isFlat |-> FALSE,
                   rotateFactor100 |-> 100] : t \in ArcTexts}
  /\ srcCanvas = NoCanvas
  /\ boundsCanvas = NoCanvas
  /\ glyphBounds = NoBounds
  /\ out = NoCanvas
  /\ first = NoCanvas
  /\ gradCanvas = <<>>
  /\ applied = NoGradient
  /\ frame = NoFrame
  /\ config = NoConfig
  /\ fx = NoFx
  /\ mem = NoMem
  /\ ui = NoUi

\* The measuring loop and the start of the layout.  totalArc and angle are
\* held as length along the circle: totalArc = radius * totalArc angle,
\* angle2 = 2 * radius * angle; cursor2 = 2 * (cursorX - centerX).
MeasureChars ==
  /\ pc = "arcinput"
  /\ LET total == SumWidths(call.text) + call.spacing * (Length(call.text) - 1)
         totalArc == IF call.isFlat THEN 0 ELSE total
     IN frame' = [x |-> -1,
                  charWidths |-> [i \in 1 .. Len(call.text) |-> call.text[i].w],
                  totalArc |-> totalArc, totalWidth |-> total,
                  angle2 |-> Num(-totalArc), cursor2 |-> Num(-total),
                  i |-> 0, glyphs |-> <<>>]
  /\ pc' = "arcmeasured"
  /\ UNCHANGED <<srcCanvas, boundsCanvas, glyphBounds, call, out, first, gradCanvas, applied,
                 config, fx, mem, ui>>

\* One iteration of "for (let i = 0; i < text.length; i++)": the glyph drawn
\* has centre angle2 (arc) or x2 (flat, twice its offset from centerX), its
\* rotation is rotation100 / (200 * radius), and flat glyphs sit on the flat
\* baseline.
PlaceGlyph ==
  /\ pc = "arcmeasured"
  /\ frame.i < Length(call.text)
  /\ LET w == CharWidthAt(frame.charWidths, frame.i)
         centre == Plus(frame.angle2, w)
         glyph == IF call.isFlat
                    THEN [w |-> w, x2 |-> Plus(frame.cursor2, w), angle2 |-> Num(0),
                          rotation100 |-> Num(0), baseline |-> "flat"]
                    ELSE [w |-> w, x2 |-> Num(0), angle2 |-> centre,
                          rotation100 |-> Times(centre, call.rotateFactor100),
                          baseline |-> "circle"]
     IN frame' = [frame EXCEPT
                    !.i = @ + 1,
                    !.glyphs = Append(@, glyph),
                    !.cursor2 = IF call.isFlat
                                  THEN Plus(Plus(@, Times(w, 2)), Num(2 * call.spacing))
                                  ELSE @,
                    !.angle2 = IF call.isFlat THEN @
                               ELSE Plus(Plus(centre, w), Num(2 * call.spacing))]
  /\ UNCHANGED <<pc, srcCanvas, boundsCanvas, glyphBounds, call, out, first, gradCanvas, applied,
                 config, fx, mem, ui>>

NextArc == MeasureChars \/ PlaceGlyph

SpecArc == InitArc /\ [][NextArc]_vars

\* The layout is finished: the drawing loop has run text.length times.
ArcLaidOut == pc = "arcmeasured" /\ frame.i = Length(call.text)

\* C24.  Arc placement: in classic arc mode one glyph is drawn per character
\* of the text, symmetrically about the top of the circle: the left edge of
\* the first glyph is at angle -totalArc/2 and the right edge of the last at
\* +totalArc/2, totalArc being the sum of the glyph widths over the radius
\* plus n-1 spacings over the radius; glyph i is centred at the running angle
\* plus half its angular width, and is rotated by its angle times
\* rotateFactor; in flat mode every glyph has rotation 0 and the same baseline.
C24_ArcPlacement ==
  ArcLaidOut =>
    LET n == Len(call.text)
        g == frame.glyphs
        totalArc == SumWidths(call.text) + (n - 1) * call.spacing
        Before(i) == SumWidths(SubSeq(call.text, 1, i - 1)) + (i - 1) * call.spacing
    IN /\ Len(g) = n
       /\ \A i \in 1 .. Len(g) :
            IF call.isFlat
              THEN g[i].rotation100 = Num(0) /\ g[i].baseline = "flat"
              ELSE /\ g[i].angle2 = Num(-totalArc + 2 * Before(i) + call.text[i].w)
                   /\ g[i].rotation100 = Num(g[i].angle2.v * call.rotateFactor100)
       /\ ~call.isFlat =>
            /\ Plus(g[1].angle2, Num(-call.text[1].w)) = Num(-totalArc)
            /\ Plus(g[Len(g)].angle2, g[Len(g)].w) = Num(totalArc)

\* C25.  normalizeConfig is idempotent: when render normalises a record that
\* normalizeConfig returned, every field of the result equals the field it
\* was given, normalizeConfig(normalizeConfig(x)) = normalizeConfig(x).
C25_NormalizeIdempotent ==
  (pc = "served") =>
    \A key \in DOMAIN config.cfg : AsInput(config.cfg)[key] = config.raw[key]

\* The final forward map of column ox of the bottom-weighted call made.
FinalMap(ox) == ForwardMap(CallGeom, ox)

\* C26.  Padding is sufficient in the bottom-weighted warp: for every bend
\* >= 0, start ratio, power and direction and every column, the forward map
\* after the monotonicity pass has 0 <= fwd[0] and fwd[h-1] <= outH - 1, outH
\* being the height of the output, h plus the two paddings, and every source
\* row lies between the two, so no row is mapped outside the output buffer.
C26_PaddingSufficient ==
  (pc = "warped" /\ call.fn = "bottomWeighted") =>
    /\ out.h = srcCanvas.h + CallGeom.extraTop + CallGeom.extraBottom
    /\ \A ox \in 0 .. srcCanvas.w - 1 :
         /\ 0 <= FinalMap(ox)[1]
         /\ FinalMap(ox)[srcCanvas.h] <= (out.h - 1) * CallGeom.D
         /\ \A sy \in 1 .. srcCanvas.h :
              0 <= FinalMap(ox)[sy] /\ FinalMap(ox)[sy] <= (out.h - 1) * CallGeom.D

\* An upward warp folded a column of a three-row buffer, and the
\* monotonicity pass raised a row of it.
C26_Witness ==
  /\ pc = "warped"
  /\ call.fn = "bottomWeighted"
  /\ call.direction = "up"
  /\ srcCanvas.h = 3
  /\ \E ox \in 0 .. srcCanvas.w - 1 : FinalMap(ox) # RawMap(CallGeom, ox)

\* C27.  The warp-image command uses one bounds result per run: the content
\* bounds from which main derived bendPx, computed with the user's
\* bgTolerance, are the bounds the bottom-weighted warp places startWarpY and
\* warpRange from, for every bgTolerance and every input image.
C27_OneBoundsPerRun ==
  (pc = "warped" /\ call.fn = "imageWarp") =>
    LET ofMain == BottomGeom(srcCanvas.w, srcCanvas.h, glyphBounds, call.bendPx,
                             call.startRatio10, call.power, call.direction)
    IN /\ glyphBounds = getContentBounds(srcCanvas, call.bgTolerance)
       /\ WarpCallGeom.swy10 = ofMain.swy10
       /\ WarpCallGeom.wr10 = ofMain.wr10

\* ------------------------------------------------------ designer page
\* The page's script runs one handler at a time.  form is the version of the
\* form's contents, valid the result of validateAllFields, autoRender the
\* checkbox, ops the render operations between their start and their finally
\* block, each with one request in flight, and sent the payload of the last
\* request renderNow sent (-1 before the first).
MaxEdits == 2
MaxFonts == 2
MaxOps == 2

\* Mutant: renderNow and compareFontsNow start whether or not one is running.
IsRenderingIgnored(u) == FALSE

\* if (isRendering) return
IsRendering(u) == u.isRendering

queueAutoRender(u) ==
  IF u.autoRender /\ u.valid THEN [u EXCEPT !.renderTimer = "armed"] ELSE u

renderNow(u) ==
  IF IsRendering(u) \/ ~u.valid THEN u
  ELSE [u EXCEPT !.isRendering = TRUE,
                 !.ops = Append(@, [kind |-> "render", payload |-> u.form, left |-> 1]),
                 !.sent = u.form]

\* compareFontsNow with n fonts in its final list; with none it throws before
\* any request and its finally block ends it in the same run.
compareFontsNow(u, n) ==
  IF IsRendering(u) \/ ~u.valid \/ n = 0 THEN u
  ELSE [u EXCEPT !.isRendering = TRUE,
                 !.ops = Append(@, [kind |-> "compare", payload |-> u.form, left |-> n])]

\* The request of operation i has completed, with success or with failure:
\* a comparison sends its next request, the last completion runs finally.
requestCompleted(u, i) ==
  IF u.ops[i].left > 1
    THEN [u EXCEPT !.ops[i].left = @ - 1]
    ELSE [u EXCEPT !.ops = SubSeq(@, 1, i - 1) \o SubSeq(@, i + 1, Len(@)),
                   !.isRendering = FALSE]

InitUi ==
  /\ pc = "page"
  /\ ui \in {[page |-> "ready", form |-> 0, valid |-> TRUE, autoRender |-> a,
              isRendering |-> FALSE, renderTimer |-> "none", ops |-> <<>>, sent |-> -1] :
               a \in BOOLEAN}
  /\ srcCanvas = NoCanvas
  /\ boundsCanvas = NoCanvas
  /\ glyphBounds = NoBounds
  /\ call = NoCall
  /\ out = NoCanvas
  /\ first = NoCanvas
  /\ gradCanvas = <<>>
  /\ applied = NoGradient
  /\ frame = NoFrame
  /\ config = NoConfig
  /\ fx = NoFx
  /\ mem = NoMem

\* The input listener of a field: the form changes, and queueAutoRender().
InputEvent(ok) ==
  /\ pc = "page"
  /\ ui.form < MaxEdits
  /\ ui' = queueAutoRender([ui EXCEPT !.form = @ + 1, !.valid = ok])
  /\ UNCHANGED <<pc, srcCanvas, boundsCanvas, glyphBounds, call, out, first, gradCanvas, applied,
                 frame, config, fx, mem>>

\* The change listener of the auto-render checkbox.
AutoRenderChanged ==
  /\ pc = "page"
  /\ ui' = LET u == [ui EXCEPT !.autoRender = ~@]
           IN IF u.autoRender THEN queueAutoRender(u) ELSE u
  /\ UNCHANGED <<pc, srcCanvas, boundsCanvas, glyphBounds, call, out, first, gradCanvas, applied,
                 frame, config, fx, mem>>

\* The callback of setTimeout(..., 280).
TimerFires ==
  /\ pc = "page"
  /\ ui.renderTimer = "armed"
  /\ ui' = renderNow([ui EXCEPT !.renderTimer = "none"])
  /\ UNCHANGED <<pc, srcCanvas, boundsCanvas, glyphBounds, call, out, first, gradCanvas, applied,
                 frame, config, fx, mem>>

\* The click listener of the render button.
ClickRender ==
  /\ pc = "page"
  /\ Len(ui.ops) < MaxOps
  /\ ui' = renderNow(ui)
  /\ UNCHANGED <<pc, srcCanvas, boundsCanvas, glyphBounds, call, out, first, gradCanvas, applied,
                 frame, config, fx, mem>>

\* The click listener of the compare button.
ClickCompare(n) ==
  /\ pc = "page"
  /\ Len(ui.ops) < MaxOps
  /\ ui' = compareFontsNow(ui, n)
  /\ UNCHANGED <<pc, srcCanvas, boundsCanvas, glyphBounds, call, out, first, gradCanvas, applied,
                 frame, config, fx, mem>>

\* await requestRender(...) resumes, by its result or by its exception.
RequestCompletes(i) ==
  /\ pc = "page"
  /\ i \in DOMAIN ui.ops
  /\ ui' = requestCompleted(ui, i)
  /\ UNCHANGED <<pc, srcCanvas, boundsCanvas, glyphBounds, call, out, first, gradCanvas, applied,
                 frame, config, fx, mem>>

NextUi ==
  \/ \E ok \in BOOLEAN : InputEvent(ok)
  \/ AutoRenderChanged
  \/ TimerFires
  \/ ClickRender
  \/ \E n \in 0 .. MaxFonts : ClickCompare(n)
  \/ \E i \in 1 .. MaxOps : RequestCompletes(i)

SpecUi == InitUi /\ [][NextUi]_vars

\* C28.  Single render in flight in the designer UI: under any interleaving
\* of button clicks, input events, timer firings and fetch completions, at
\* most one renderNow or compareFontsNow operation is in progress at a time,
\* with one request in flight, and isRendering is true exactly while one is
\* in progress.
C28_SingleRenderInFlight ==
  (pc = "page") =>
    /\ Len(ui.ops) <= 1
    /\ ui.isRendering <=> Len(ui.ops) = 1
    /\ \A i \in DOMAIN ui.ops : ui.ops[i].left >= 1

\* A comparison is waiting for its last request while the timer is armed by
\* an input event that arrived after it started.
C28_Witness ==
  /\ pc = "page"
  /\ ui.isRendering
  /\ Len(ui.ops) = 1
  /\ ui.ops[1].kind = "compare"
  /\ ui.ops[1].left = 1
  /\ ui.ops[1].payload < ui.form
  /\ ui.renderTimer = "armed"

\* The page with its scheduling: an armed timer fires, and every request
\* completes.
SpecUiLive ==
  /\ InitUi
  /\ [][NextUi]_vars
  /\ WF_vars(TimerFires)
  /\ WF_vars(\E i \in 1 .. MaxOps : RequestCompletes(i))

\* An input event has queued an auto-render of a form that no request of
\* renderNow has carried yet.
AutoRenderQueued ==
  /\ pc = "page"
  /\ ui.autoRender
  /\ ui.valid
  /\ ui.renderTimer = "armed"
  /\ ui.sent # ui.form

\* C29.  Auto-render converges to the latest form state: once an input event
\* has queued an auto-render, with auto-render enabled and all fields valid,
\* and whether or not a request is in flight at the time, a render request
\* whose payload equals the form is eventually sent, unless auto-render is
\* switched off or a field becomes invalid first.
C29_AutoRenderConverges ==
  AutoRenderQueued ~> (ui.sent = ui.form \/ ~ui.autoRender \/ ~ui.valid)

\* ------------------------------------------------------ preview server
\* A request target is "/output/" followed by segments joined by "/".  A
\* segment is a sequence of pieces of text: a name, "." or "..", the escapes
\* "%2e%2e" (two dots) and "%2f" (a slash), and "%zz", which is no escape.
MaxSegments == 2

OUTPUT_DIR == <<<<"srv">>, <<"output">>>>

TargetSegments ==
  {<<>>, <<"a">>, <<"output">>, <<"output2">>, <<".">>, <<"..">>, <<"%2e%2e">>, <<"%zz">>,
   <<"%2f", "a">>, <<"..", "%2f", "a">>, <<"..", "%2f", "output">>,
   <<"..", "%2f", "output2", "%2f", "a">>, <<"..", "%2f", "..", "%2f", "a">>,
   <<"a", "%2f", "..">>}

Targets == UNION { [1 .. n -> TargetSegments] : n \in 1 .. MaxSegments }

\* new URL(req.url, baseUrl).pathname: "." segments are dropped and ".."
\* segments, written out or percent-encoded, remove the segment before them;
\* either as the last segment leaves a trailing slash (an empty segment).
RECURSIVE UrlPath(_, _)
UrlPath(segments, path) ==
  IF segments = <<>> THEN path
  ELSE LET seg == Head(segments)
           isLast == Len(segments) = 1
           shorter == IF path = <<>> THEN path ELSE SubSeq(path, 1, Len(path) - 1)
       IN UrlPath(Tail(segments),
                  IF seg \in {<<"..">>, <<"%2e%2e">>}
                    THEN (IF isLast THEN Append(shorter, <<>>) ELSE shorter)
                  ELSE IF seg = <<".">> THEN (IF isLast THEN Append(path, <<>>) ELSE path)
                  ELSE Append(path, seg))

\* One segment decoded: "%2f" ends a segment, "%2e%2e" becomes "..".
RECURSIVE DecodeSegment(_, _, _)
DecodeSegment(pieces, current, done) ==
  IF pieces = <<>> THEN Append(done, current)
  ELSE IF Head(pieces) = "%2f" THEN DecodeSegment(Tail(pieces), <<>>, Append(done, current))
  ELSE DecodeSegment(Tail(pieces),
                     Append(current, IF Head(pieces) = "%2e%2e" THEN ".." ELSE Head(pieces)),
                     done)

RECURSIVE DecodeSegments(_)
DecodeSegments(segments) ==
  IF segments = <<>> THEN <<>>
  ELSE DecodeSegment(Head(segments), <<>>, <<>>) \o DecodeSegments(Tail(segments))

\* decodeURIComponent of the segments joined by "/": a URIError when a "%" is
\* not followed by two hex digits, else the segments of the decoded string.
decodeURIComponent(segments) ==
  IF \E i \in DOMAIN segments : \E j \in DOMAIN segments[i] : segments[i][j] = "%zz"
    THEN [ok |-> FALSE, v |-> <<>>]
    ELSE [ok |-> TRUE, v |-> DecodeSegments(segments)]

RECURSIVE Normalize(_, _)
Normalize(segments, path) ==
  IF segments = <<>> THEN path
  ELSE Normalize(Tail(segments),
                 IF Head(segments) \in {<<>>, <<".">>} THEN path
                 ELSE IF Head(segments) = <<"..">>
                   THEN (IF path = <<>> THEN path ELSE SubSeq(path, 1, Len(path) - 1))
                 ELSE Append(path, Head(segments)))

\* path.resolve(from, relative): a relative path that starts with "/" is
\* resolved from the root.
resolve(from, relative) ==
  Normalize(relative, IF Len(relative) >= 2 /\ relative[1] = <<>> THEN <<>> ELSE from)

\* Does the text of name start with the text of prefix?
NameStartsWith(name, prefix) == name = prefix \/ (name = <<"output2">> /\ prefix = <<"output">>)

\* Mutant: absolute.startsWith(OUTPUT_DIR), without the separator.
IsInsideByPrefix(absolute) ==
  /\ Len(absolute) >= Len(OUTPUT_DIR)
  /\ absolute[1] = OUTPUT_DIR[1]
  /\ NameStartsWith(absolute[2], OUTPUT_DIR[2])

\* absolute === OUTPUT_DIR || absolute.startsWith(OUTPUT_DIR + path.sep)
IsInsideOutputDir(absolute) ==
  Len(absolute) >= Len(OUTPUT_DIR) /\ SubSeq(absolute, 1, Len(OUTPUT_DIR)) = OUTPUT_DIR

\* safeOutputPath of the pathname segments after "/output/": the absolute
\* path, null, or the URIError of decodeURIComponent.
safeOutputPath(segments) ==
  LET relative == decodeURIComponent(segments)
      absolute == resolve(OUTPUT_DIR, relative.v)
  IN IF ~relative.ok THEN [k |-> "URIError", v |-> <<>>]
     ELSE IF IsInsideOutputDir(absolute) THEN [k |-> "path", v |-> absolute]
     ELSE [k |-> "null", v |-> <<>>]

InitServer ==
  /\ pc = "request"
  /\ call \in {[fn |-> "handleRequest", method |-> "GET", target |-> t] : t \in Targets}
  /\ srcCanvas = NoCanvas
  /\ boundsCanvas = NoCanvas
  /\ glyphBounds = NoBounds
  /\ out = NoCanvas
  /\ first = NoCanvas
  /\ gradCanvas = <<>>
  /\ applied = NoGradient
  /\ frame = NoFrame
  /\ config = NoConfig
  /\ fx = NoFx
  /\ mem = NoMem
  /\ ui = NoUi

\* const url = new URL(req.url, baseUrl)
ParseUrl ==
  /\ pc = "request"
  /\ frame' = [x |-> -1, pathname |-> UrlPath(<<<<"output">>>> \o call.target, <<>>),
               status |-> 0, file |-> <<>>]
  /\ pc' = "routed"
  /\ UNCHANGED <<srcCanvas, boundsCanvas, glyphBounds, call, out, first, gradCanvas, applied,
                 config, fx, mem, ui>>

\* url.pathname.startsWith('/output/')
IsOutputRoute(pathname) == Len(pathname) >= 2 /\ pathname[1] = <<"output">>

\* The /output/ branch: 403 when safeOutputPath returns null, else sendFile,
\* which answers 200 when the path is a file and 404 when it is not; the
\* URIError is caught by the server's handler, which answers 500.
ServeOutput(isFile) ==
  /\ pc = "routed"
  /\ IsOutputRoute(frame.pathname)
  /\ LET outputFile == safeOutputPath(Tail(frame.pathname))
     IN frame' = [frame EXCEPT
                    !.status = IF outputFile.k = "URIError" THEN 500
                               ELSE IF outputFile.k = "null" THEN 403
                               ELSE IF isFile THEN 200 ELSE 404,
                    !.file = outputFile.v]
  /\ pc' = "responded"
  /\ UNCHANGED <<srcCanvas, boundsCanvas, glyphBounds, call, out, first, gradCanvas, applied,
                 config, fx, mem, ui>>

\* No route matches: sendText(res, 404, 'Not found').
NotFound ==
  /\ pc = "routed"
  /\ ~IsOutputRoute(frame.pathname)
  /\ frame' = [frame EXCEPT !.status = 404]
  /\ pc' = "responded"
  /\ UNCHANGED <<srcCanvas, boundsCanvas, glyphBounds, call, out, first, gradCanvas, applied,
                 config, fx, mem, ui>>

NextServer ==
  \/ ParseUrl
  \/ \E isFile \in BOOLEAN : ServeOutput(isFile)
  \/ NotFound

SpecServer == InitServer /\ [][NextServer]_vars

====
